---------------------------- MODULE Spec2Model ----------------------------
(***************************************************************************)
(* AUSoundTouch: the streaming adapter SoundTouchWrapper, which decouples  *)
(* a fixed-size host audio block from the variable-ratio SoundTouch        *)
(* engine through a juce::AbstractFifo over the vector fifoBuffer.         *)
(*                                                                         *)
(* Sample values are integers: 0 is the float 0.0 of a value-initialised   *)
(* or cleared buffer, a negative number is a sample the host supplied, a   *)
(* positive number is the position of a sample in the engine's output      *)
(* stream.  A vector<float> is kept as its size and a set of runs, a run   *)
(* [lo, hi, v0, st] holding the value v0 + st * (i - lo) at every index i  *)
(* of lo .. hi-1: the vectors of the program are tens of thousands of      *)
(* floats long and are only ever written in contiguous pieces.             *)
(***************************************************************************)
EXTENDS Integers, Sequences, FiniteSets, TLC

VARIABLES
    currentSampleRate,   \* SoundTouchWrapper::currentSampleRate
    currentBlockSize,    \* SoundTouchWrapper::currentBlockSize
    currentNumChannels,  \* SoundTouchWrapper::currentNumChannels
    bufferingMode,       \* SoundTouchWrapper::bufferingMode
    interleavedBuffer,   \* size of the vector interleavedBuffer
    outputFifo,          \* the juce::AbstractFifo outputFifo points to, or NoFifo
    fifoBuffer,          \* the vector fifoBuffer: [size, runs]
    processor,           \* the soundtouch::SoundTouch engine
    streamPos,           \* position in the engine's output stream of its next sample
    blockCount,          \* the static counter of processBlock
    liveFifos,           \* AbstractFifo objects alive on the heap
    crashed,             \* the process ended abnormally
    lastOp,              \* the operation that ran last, with its mode argument
    prevOp,              \* the operation before it, when that was setBufferingMode (1)
    call,                \* what the last processBlock call was given and did
    ratios,              \* the pitch, tempo and rate the engine was last given
    parameters,          \* the raw values of the parameters pitch, tempo and speed
    processorMode,       \* AUSoundTouchProcessor::bufferingMode
    audio,               \* the audio thread in AUSoundTouchProcessor::processBlock
    stateData            \* the MemoryBlock getStateInformation filled last

vars == <<currentSampleRate, currentBlockSize, currentNumChannels, bufferingMode,
          interleavedBuffer, outputFifo, fifoBuffer, processor, streamPos,
          blockCount, liveFifos, crashed, lastOp, prevOp, call,
          ratios, parameters, processorMode, audio, stateData>>

\* The fields of the plugin processor around the adapter, its audio thread
\* and its saved state.
plugin == <<parameters, processorMode, audio, stateData>>

\* The fields of the adapter object and of the engine it owns.
adapter == <<currentSampleRate, currentBlockSize, currentNumChannels, bufferingMode,
             interleavedBuffer, outputFifo, fifoBuffer, processor, streamPos>>

-----------------------------------------------------------------------------
(* Bounds of the model *)

MaxChannels == 3
MaxBlocks == 2
MaxModeArg == 4
BurstGain == 4

(* Program constants *)

DefaultSampleRate == 44100
DefaultBlockSize == 512
DefaultNumChannels == 2
DefaultBufferingMode == 2
MinimalFloor == 4096
MinimalBlocks == 8
NormalFloor == 16384
NormalBlocks == 32
ExtraFloor == 32768
ExtraBlocks == 64

(* Inputs *)

LargeBlock == 700
SampleRates == {DefaultSampleRate}
SmallBlock == 256
BlockSizes == {SmallBlock, LargeBlock}
ChannelCounts == 1 .. MaxChannels
BufferFrames == {LargeBlock}
ModeArgs == 0 .. MaxModeArg

Max(a, b) == IF a >= b THEN a ELSE b
Min(a, b) == IF a <= b THEN a ELSE b
CeilDiv(a, b) == (a + b - 1) \div b

-----------------------------------------------------------------------------
(* std::vector<float> as runs *)

EmptyVector == [size |-> 0, runs |-> {}]

\* The part of run r that lies in a .. b-1.
Clip(r, a, b) ==
    LET lo == Max(r.lo, a)
        hi == Min(r.hi, b)
    IN [lo |-> lo, hi |-> hi, v0 |-> r.v0 + r.st * (lo - r.lo), st |-> r.st]

ClipAll(runs, a, b) ==
    {Clip(r, a, b) : r \in {q \in runs : Max(q.lo, a) < Min(q.hi, b)}}

\* Run q continues run r: it starts where r ends, with the next value.
Continues(r, q) ==
    r.hi = q.lo /\ r.st = q.st /\ q.v0 = r.v0 + r.st * (r.hi - r.lo)

\* The same contents in the fewest runs.
RECURSIVE Joined(_)
Joined(runs) ==
    IF \E r, q \in runs : Continues(r, q)
    THEN LET r == CHOOSE x \in runs : \E q \in runs : Continues(x, q)
             q == CHOOSE x \in runs : Continues(r, x)
         IN Joined((runs \ {r, q}) \cup {[r EXCEPT !.hi = q.hi]})
    ELSE runs

\* v[i]
VecAt(v, i) ==
    LET r == CHOOSE q \in v.runs : q.lo <= i /\ i < q.hi
    IN r.v0 + r.st * (i - r.lo)

\* v.resize(v.size() + n): the vector grows by n elements with every call.
VecGrow(v, n) ==
    [size |-> v.size + n,
     runs |-> Joined(v.runs \cup {[lo |-> v.size, hi |-> v.size + n, v0 |-> 0, st |-> 0]})]

\* v.resize(n): the elements below n are kept, new elements are 0.0f.
VecResize(v, n) ==
    [size |-> n,
     runs |-> Joined(ClipAll(v.runs, 0, n)
                     \cup (IF n > v.size
                           THEN {[lo |-> v.size, hi |-> n, v0 |-> 0, st |-> 0]}
                           ELSE {}))]

\* std::vector<float> v(n): n elements, all 0.0f.
VecZero(n) == VecResize(EmptyVector, n)

\* std::copy(src.begin() + from, src.begin() + from + n, dst.begin() + to)
VecCopy(dst, to, src, from, n) ==
    IF n <= 0 THEN dst
    ELSE [size |-> dst.size,
          runs |-> Joined(ClipAll(dst.runs, 0, to)
                          \cup ClipAll(dst.runs, to + n, dst.size)
                          \cup {[lo |-> r.lo + (to - from), hi |-> r.hi + (to - from),
                                 v0 |-> r.v0, st |-> r.st] :
                                r \in ClipAll(src.runs, from, from + n)})]

\* n consecutive stream samples, the first at position pos, stored at v[0 .. n-1].
VecReceive(v, n, pos) ==
    IF n <= 0 THEN v
    ELSE [size |-> v.size,
          runs |-> Joined(ClipAll(v.runs, n, v.size)
                          \cup {[lo |-> 0, hi |-> n, v0 |-> pos, st |-> 1]})]


-----------------------------------------------------------------------------
(* juce::AbstractFifo, as the adapter uses it: bufferSize slots, of which  *)
(* at most bufferSize - 1 are ever ready.                                  *)

NoFifo == [bufferSize |-> 0, validStart |-> 0, validEnd |-> 0]

\* juce::AbstractFifo (int capacity)
NewFifo(capacity) == [bufferSize |-> capacity, validStart |-> 0, validEnd |-> 0]

\* validEnd - validStart, whichever of the two is ahead.
NumReadyUnwrapped(f) == f.validEnd - f.validStart

\* getNumReady()
NumReady(f) ==
    IF f.validEnd >= f.validStart
    THEN f.validEnd - f.validStart
    ELSE f.bufferSize - (f.validStart - f.validEnd)

\* getFreeSpace()
FreeSpace(f) == f.bufferSize - NumReady(f) - 1

NoSpans == [start1 |-> 0, size1 |-> 0, start2 |-> 0, size2 |-> 0]

\* prepareToWrite (numToWrite, start1, size1, start2, size2)
PrepareToWrite(f, numToWrite) ==
    LET n == Min(numToWrite, FreeSpace(f))
        size1 == Min(f.bufferSize - f.validEnd, n)
    IN IF n <= 0 THEN NoSpans
       ELSE [start1 |-> f.validEnd, size1 |-> size1, start2 |-> 0,
             size2 |-> IF n - size1 <= 0 THEN 0 ELSE Min(n - size1, f.validStart)]

\* finishedWrite (numWritten)
FinishedWrite(f, numWritten) ==
    LET newEnd == f.validEnd + numWritten
    IN [f EXCEPT !.validEnd = IF newEnd >= f.bufferSize
                              THEN newEnd - f.bufferSize ELSE newEnd]

\* prepareToRead (numWanted, start1, size1, start2, size2)
PrepareToRead(f, numWanted) ==
    LET n == Min(numWanted, NumReady(f))
        size1 == Min(f.bufferSize - f.validStart, n)
    IN IF n <= 0 THEN NoSpans
       ELSE [start1 |-> f.validStart, size1 |-> size1, start2 |-> 0,
             size2 |-> IF n - size1 <= 0 THEN 0 ELSE Min(n - size1, f.validEnd)]

\* finishedRead (numRead)
FinishedRead(f, numRead) ==
    LET newStart == f.validStart + numRead
    IN [f EXCEPT !.validStart = IF newStart >= f.bufferSize
                                THEN newStart - f.bufferSize ELSE newStart]

\* The object the pointer held before is never destroyed.
LiveAfterLeak(live, old) == live + 1

\* outputFifo = std::make_unique<juce::AbstractFifo>(..): the object the
\* pointer held before, if any, is destroyed.
LiveAfterReplace(live, old) == live + 1 - (IF old = NoFifo THEN 0 ELSE 1)

-----------------------------------------------------------------------------
(* soundtouch::SoundTouch, a black box: it holds input frames it has not   *)
(* consumed yet and output frames waiting for receiveSamples.              *)

NewEngine == [channels |-> 0, unprocessed |-> 0, queued |-> 0]

\* clear()
EngineClear(e) == [e EXCEPT !.unprocessed = 0, !.queued = 0]

\* What putSamples may leave: the engine keeps the frames for later; or it
\* consumes half of what it holds and emits as many frames; or it consumes
\* all it holds and emits as many frames, or BurstGain times as many (tempo
\* and rate ratios below 1).
EngineAfterPut(e, numSamples) ==
    LET pending == e.unprocessed + numSamples
    IN {[e EXCEPT !.unprocessed = pending],
        [e EXCEPT !.unprocessed = pending - pending \div 2,
                  !.queued = e.queued + pending \div 2],
        [e EXCEPT !.unprocessed = 0, !.queued = e.queued + pending],
        [e EXCEPT !.unprocessed = 0, !.queued = e.queued + pending * BurstGain]}

\* The engine at unity pitch, tempo and rate: every frame put comes out
\* once, after the engine has held it with others for a while.  It never
\* holds more than MaxRetained frames.
MaxRetainedBlocks == 2
MaxRetained == MaxRetainedBlocks * DefaultBlockSize
Retentions == {0, SmallBlock, MaxRetained}

UnityEngineAfterPut(e, numSamples) ==
    LET pending == e.unprocessed + numSamples
    IN {[e EXCEPT !.unprocessed = r, !.queued = e.queued + pending - r] :
          r \in {q \in Retentions \cup {pending} : q <= pending /\ q <= MaxRetained}}

-----------------------------------------------------------------------------
(* The ring-buffer size of a buffering mode *)

\* Every mode gets the Normal size.
FifoSizeNormal(mode, blockSize) == Max(NormalFloor, blockSize * NormalBlocks)

\* The switch of prepare and of setBufferingMode.
FifoSizeFor(mode, blockSize) ==
    CASE mode = 1 -> Max(MinimalFloor, blockSize * MinimalBlocks)
      [] mode = 2 -> Max(NormalFloor, blockSize * NormalBlocks)
      [] mode = 3 -> Max(ExtraFloor, blockSize * ExtraBlocks)
      [] OTHER -> Max(NormalFloor, blockSize * NormalBlocks)

Op(name, mode, was) == [name |-> name, mode |-> mode, was |-> was]

\* What is remembered of an operation once another one has followed it:
\* whether it was setBufferingMode (1), a switch to Minimal.
Earlier(op) ==
    IF op.name = "setBufferingMode" /\ op.mode = 1
    THEN [name |-> op.name, mode |-> op.mode]
    ELSE [name |-> "other", mode |-> 0]

NoCall ==
    [outcome |-> "NONE", numSamples |-> 0, numChannels |-> 0,
     input |-> <<>>, output |-> <<>>, before |-> NoFifo, drained |-> NoFifo,
     available |-> 0, batches |-> <<>>, outOfRange |-> FALSE, logged |-> FALSE,
     readyBefore |-> 0, vecBefore |-> EmptyVector, result |-> 0,
     allocations |-> {}, readSpans |-> NoSpans, put |-> 0]

-----------------------------------------------------------------------------
(* SoundTouchWrapper::prepare *)

\* The call repeats the call before it: that was prepare, with these
\* arguments.
Repeated(sampleRate, blockSize, numChannels) ==
    /\ lastOp.name = "prepare"
    /\ currentSampleRate = sampleRate
    /\ currentBlockSize = blockSize
    /\ currentNumChannels = numChannels

prepare(sampleRate, blockSize, numChannels) ==
    LET fifoSize == FifoSizeFor(bufferingMode, blockSize)
    IN /\ ~crashed
       /\ blockCount < MaxBlocks
       /\ currentSampleRate' = sampleRate
       /\ currentBlockSize' = blockSize
       /\ currentNumChannels' = numChannels
       /\ interleavedBuffer' = blockSize * numChannels * 2
       /\ outputFifo' = NewFifo(fifoSize)
       /\ liveFifos' = LiveAfterReplace(liveFifos, outputFifo)
       /\ fifoBuffer' = VecResize(fifoBuffer, fifoSize * numChannels)
       /\ processor' = EngineClear([processor EXCEPT !.channels = numChannels])
       /\ prevOp' = Earlier(lastOp)
       /\ lastOp' = Op("prepare", 0,
                       IF Repeated(sampleRate, blockSize, numChannels) THEN 1 ELSE 0)
       /\ call' = NoCall
       /\ UNCHANGED <<bufferingMode, streamPos, blockCount, crashed>>

-----------------------------------------------------------------------------
(* SoundTouchWrapper::setBufferingMode *)

\* The early return of setBufferingMode.
ModeIgnored(mode, current) == mode < 1 \/ mode > 3 \/ mode = current

setBufferingMode(mode) ==
    /\ ~crashed
    /\ blockCount < MaxBlocks
    /\ prevOp' = Earlier(lastOp)
    /\ lastOp' = Op("setBufferingMode", mode, bufferingMode)
    /\ call' = NoCall
    /\ UNCHANGED <<currentSampleRate, currentBlockSize, currentNumChannels,
                   interleavedBuffer, streamPos, blockCount, crashed>>
    /\ IF ModeIgnored(mode, bufferingMode)
       THEN UNCHANGED <<bufferingMode, outputFifo, liveFifos, fifoBuffer, processor>>
       ELSE /\ bufferingMode' = mode
            /\ IF currentBlockSize > 0 /\ currentNumChannels > 0
               THEN LET fifoSize == FifoSizeFor(mode, currentBlockSize)
                    IN /\ outputFifo' = NewFifo(fifoSize)
                       /\ liveFifos' = LiveAfterReplace(liveFifos, outputFifo)
                       /\ fifoBuffer' = VecResize(fifoBuffer, fifoSize * currentNumChannels)
                       /\ processor' = EngineClear(processor)
               ELSE UNCHANGED <<outputFifo, liveFifos, fifoBuffer, processor>>

-----------------------------------------------------------------------------
(* SoundTouchWrapper::getLatencyInSamples *)

\* The FIFO's samples are counted as if they were frames.
LatencyInSamplesUndivided ==
    processor.unprocessed + (IF outputFifo # NoFifo THEN NumReady(outputFifo) ELSE 0)

\* unprocessedSamples + fifoSamples
LatencyInSamples ==
    processor.unprocessed
    + (IF outputFifo # NoFifo THEN NumReady(outputFifo) \div currentNumChannels ELSE 0)

getLatencyInSamples ==
    /\ ~crashed
    /\ blockCount < MaxBlocks
    /\ prevOp' = Earlier(lastOp)
    /\ lastOp' = Op("getLatencyInSamples", 0, 0)
    /\ call' = [NoCall EXCEPT !.result = LatencyInSamples]
    /\ UNCHANGED <<adapter, blockCount, liveFifos, crashed>>

-----------------------------------------------------------------------------
(* juce::AudioBuffer<float>: one vector per channel, channel ch at ch + 1 *)

\* The block the host passes in: sample `frame` of channel ch is the host
\* sample -(frame * numChannels + ch + 1).
HostBuffer(numChannels, numSamples) ==
    [c \in 1 .. numChannels |->
        [size |-> numSamples,
         runs |-> IF numSamples = 0 THEN {}
                  ELSE {[lo |-> 0, hi |-> numSamples, v0 |-> -c, st |-> -numChannels]}]]

\* buffer.getSample (ch, frame)
GetSample(buffer, ch, frame) == VecAt(buffer[ch + 1], frame)

\* The indices of 0 .. n-1 that no run covers, as runs of 0.0f.
ZeroGaps(runs, n) ==
    LET starts == {a \in {0} \cup {r.hi : r \in runs} :
                     a < n /\ \A r \in runs : ~(r.lo <= a /\ a < r.hi)}
        NextLo(a) == LET los == {r.lo : r \in runs} \cap (a .. n)
                     IN IF los = {} THEN n ELSE CHOOSE x \in los : \A y \in los : x <= y
    IN {[lo |-> a, hi |-> NextLo(a), v0 |-> 0, st |-> 0] : a \in starts}

\* One de-interleaving loop of processBlock, for channel ch: for i = 0,
\* numChannels, 2 numChannels, .. below size, frame sampleIndex + i/numChannels
\* is set to fifoBuffer[start + i + ch].
SpanRuns(vec, start, size, numChannels, ch, sampleIndex) ==
    LET count == CeilDiv(size, numChannels)
        First(r) == Max(0, CeilDiv(r.lo - start - ch, numChannels))
        Last(r) == Min(count, CeilDiv(r.hi - start - ch, numChannels))
    IN {[lo |-> sampleIndex + First(r), hi |-> sampleIndex + Last(r),
         v0 |-> r.v0 + r.st * (start + ch + First(r) * numChannels - r.lo),
         st |-> r.st * numChannels] :
        r \in {q \in vec.runs : First(q) < Last(q)}}

\* The writes of both de-interleaving loops to channel ch, by sample index.
FrameWrites(vec, spans, numChannels, ch) ==
    SpanRuns(vec, spans.start1, spans.size1, numChannels, ch, 0)
    \cup SpanRuns(vec, spans.start2, spans.size2, numChannels, ch,
                  CeilDiv(spans.size1, numChannels))

\* The number of frames both loops write.
FramesWritten(spans, numChannels) ==
    CeilDiv(spans.size1, numChannels) + CeilDiv(spans.size2, numChannels)

\* availableInFifo > numSamples: a block's worth of frames is not enough.
EnoughReadyStrict(availableInFifo, numSamples) == availableInFifo > numSamples

\* availableInFifo >= numSamples
EnoughReady(availableInFifo, numSamples) == availableInFifo >= numSamples

\* The number of samples the read stage asks of the FIFO and commits.
ReadRequest(numSamples, numChannels) == numSamples * numChannels

\* finishedRead hoisted out of the `if`: it runs in every block.
FifoAlwaysRead(enough, drained, read) == read

\* The FIFO after step 3: finishedRead runs only when enough was ready.
FifoAfterRead(enough, drained, read) == IF enough THEN read ELSE drained

\* Step 3 of processBlock when enough is ready: buffer.clear(), then both
\* loops, then finishedRead.  A write to a sample index that is not below
\* numSamples is outside the channel: `spill` holds, per channel, the runs
\* written there.
ReadStage(fifo, vec, numSamples, numChannels) ==
    LET spans == PrepareToRead(fifo, ReadRequest(numSamples, numChannels))
        total == FramesWritten(spans, numChannels)
        Writes(c) == FrameWrites(vec, spans, numChannels, c - 1)
        InRange(c) == ClipAll(Writes(c), 0, numSamples)
    IN [fifo |-> FinishedRead(fifo, ReadRequest(numSamples, numChannels)),
        spans |-> spans,
        output |-> [c \in 1 .. numChannels |->
                      [size |-> numSamples,
                       runs |-> InRange(c) \cup ZeroGaps(InRange(c), numSamples)]],
        outOfRange |-> total > numSamples,
        spill |-> [c \in 1 .. numChannels |-> ClipAll(Writes(c), numSamples, total)]]

\* What a write past the end of a channel does. "adjacent": the channels are
\* contiguous (a buffer that owns its memory), and index numSamples of a
\* channel is index 0 of the next one; the last channel's lands in the
\* slack after the data. "elsewhere": the channels are the host's arrays,
\* and other memory is overwritten. "crash": the process ends.
OutOfRangeEffects == {"adjacent", "elsewhere", "crash"}

Spilled(read, numSamples, numChannels, effect) ==
    IF ~read.outOfRange \/ effect # "adjacent" \/ numSamples = 0 THEN read.output
    ELSE [c \in 1 .. numChannels |->
            IF c = 1 \/ read.spill[c - 1] = {} THEN read.output[c]
            ELSE [size |-> numSamples,
                  runs |-> ClipAll(read.output[c].runs, 1, numSamples)
                           \cup {[lo |-> 0, hi |-> 1, st |-> 0,
                                  v0 |-> VecAt([size |-> numSamples + 1,
                                                runs |-> read.spill[c - 1]], numSamples)]}]]

-----------------------------------------------------------------------------
(* SoundTouchWrapper::processBlock *)

\* numChannels > currentNumChannels: a buffer with fewer channels passes.
ChannelsExceed(numChannels, current) == numChannels > current

\* numChannels != currentNumChannels
ChannelMismatch(numChannels, current) == numChannels # current

\* samplesToWrite = received: the free space is not looked at.
SamplesToWriteAll(received, samplesInFifo) == received

\* samplesToWrite = std::min (received, samplesInFifo)
SamplesToWrite(received, samplesInFifo) == Min(received, samplesInFifo)

\* The loop is also left when a batch finds the ring buffer full.
LoopEndsWhenFull(queued, received, samplesToWrite) ==
    queued <= 0 \/ received = 0 \/ samplesToWrite = 0

\* `if (received == 0) break` is missing.
LoopEndsWhenDrained(queued, received, samplesToWrite) == queued <= 0

\* The loop is left: `while (processor->numSamples() > 0)` fails, or
\* `if (received == 0) break`.
LoopEnds(queued, received, samplesToWrite) == queued <= 0 \/ received = 0

\* The count given to processor->putSamples.
PutCount(numSamples, numChannels) == numSamples

\* One pass of the loop of step 2: queued frames wait in the engine, pos is
\* the stream position of the first of them.
DrainOnce(queued, fifo, vec, temp, pos, numSamples, numChannels) ==
    LET received == Min(queued, numSamples * 2)
        temp1 == VecReceive(temp, received * numChannels, pos)
        samplesInFifo == FreeSpace(fifo) \div numChannels
        samplesToWrite == SamplesToWrite(received, samplesInFifo)
        spans == PrepareToWrite(fifo, samplesToWrite * numChannels)
        written == samplesToWrite > 0
        vec1 == VecCopy(VecCopy(vec, spans.start1, temp1, 0, spans.size1),
                        spans.start2, temp1, spans.size1, spans.size2)
        fifo1 == IF written THEN FinishedWrite(fifo, samplesToWrite * numChannels)
                 ELSE fifo
    IN [ends |-> LoopEnds(queued, received, samplesToWrite),
        queued |-> queued - received,
        fifo |-> fifo1,
        vec |-> IF written THEN vec1 ELSE vec,
        temp |-> temp1,
        pos |-> pos + received * numChannels,
        batch |-> [received |-> received, samplesInFifo |-> samplesInFifo,
                   samplesToWrite |-> samplesToWrite,
                   spans |-> IF written THEN spans ELSE NoSpans,
                   fifo |-> fifo, after |-> fifo1, pos |-> pos]]

\* Step 2, the loop `while (processor->numSamples() > 0)`.
RECURSIVE DrainLoop(_, _, _, _, _, _, _, _)
DrainLoop(queued, fifo, vec, temp, pos, numSamples, numChannels, batches) ==
    LET pass == DrainOnce(queued, fifo, vec, temp, pos, numSamples, numChannels)
    IN IF pass.ends
       THEN [queued |-> queued, fifo |-> fifo, vec |-> vec, pos |-> pos,
             batches |-> batches]
       ELSE DrainLoop(pass.queued, pass.fifo, pass.vec, pass.temp, pass.pos,
                      numSamples, numChannels, Append(batches, pass.batch))

\* jassertfalse: a debug build, or one with JUCE_LOG_ASSERTIONS, logs the
\* failed assertion; in any other build the macro expands to nothing.
AssertionLogged == BOOLEAN

\* The call is refused: the buffer has another channel count.
Refused(numSamples, numChannels) ==
    /\ ChannelMismatch(numChannels, currentNumChannels)
    /\ \E logged \in AssertionLogged :
       call' = [NoCall EXCEPT !.outcome = "REFUSED",
                              !.numSamples = numSamples, !.numChannels = numChannels,
                              !.input = HostBuffer(numChannels, numSamples),
                              !.output = HostBuffer(numChannels, numSamples),
                              !.before = outputFifo, !.drained = outputFifo,
                              !.readyBefore = NumReady(outputFifo),
                              !.vecBefore = fifoBuffer,
                              !.logged = logged]
    /\ UNCHANGED <<adapter, blockCount, liveFifos, crashed>>

\* No FIFO exists (prepare never ran): outputFifo is a null pointer and the
\* engine has no channel count.
Unprepared(numSamples, numChannels) ==
    /\ ~ChannelMismatch(numChannels, currentNumChannels)
    /\ outputFifo = NoFifo
    /\ crashed' = TRUE
    /\ call' = [NoCall EXCEPT !.outcome = "CRASH",
                              !.numSamples = numSamples, !.numChannels = numChannels,
                              !.input = HostBuffer(numChannels, numSamples),
                              !.output = HostBuffer(numChannels, numSamples)]
    /\ UNCHANGED <<adapter, blockCount, liveFifos>>

\* The buffers the call takes from the heap: interleavedBuffer is resized
\* when it is too small, and tempBuffer is a vector constructed in the call
\* (no storage is taken for a vector of no elements).
Allocations(requiredSize, interleavedSize) ==
    (IF interleavedSize < requiredSize * 2 THEN {"interleavedBuffer"} ELSE {})
    \cup (IF requiredSize * 2 > 0 THEN {"tempBuffer"} ELSE {})

\* The call runs the three steps; `engines` is what putSamples may leave,
\* pos the stream position the engine's output is told by from here on, and
\* count the number of blocks the call makes it.
AcceptedAt(engines, numSamples, numChannels, pos, count) ==
    /\ ~ChannelMismatch(numChannels, currentNumChannels)
    /\ outputFifo # NoFifo
    /\ \E engine \in engines :
       \E drain \in {DrainLoop(engine.queued, outputFifo, fifoBuffer,
                               VecZero(numSamples * numChannels * 2), pos,
                               numSamples, numChannels, <<>>)} :
       \E read \in {ReadStage(drain.fifo, drain.vec, numSamples, numChannels)} :
         LET requiredSize == numSamples * numChannels
             availableInFifo == NumReady(drain.fifo) \div numChannels
             enough == EnoughReady(availableInFifo, numSamples)
             outOfRange == enough /\ read.outOfRange
         IN \E effect \in IF outOfRange THEN OutOfRangeEffects ELSE {"elsewhere"} :
            /\ interleavedBuffer' = Max(interleavedBuffer, requiredSize * 2)
            /\ processor' = [engine EXCEPT !.queued = drain.queued]
            /\ streamPos' = drain.pos
            /\ fifoBuffer' = drain.vec
            /\ outputFifo' = FifoAfterRead(enough, drain.fifo, read.fifo)
            /\ crashed' = (outOfRange /\ effect = "crash")
            /\ blockCount' = count
            /\ call' = [NoCall EXCEPT
                          !.outcome = IF enough THEN "PROCESSED" ELSE "PASSTHROUGH",
                          !.numSamples = numSamples, !.numChannels = numChannels,
                          !.input = HostBuffer(numChannels, numSamples),
                          !.output = IF enough
                                     THEN Spilled(read, numSamples, numChannels, effect)
                                     ELSE HostBuffer(numChannels, numSamples),
                          !.before = outputFifo, !.drained = drain.fifo,
                          !.readyBefore = NumReady(outputFifo),
                          !.vecBefore = fifoBuffer,
                          !.available = availableInFifo,
                          !.batches = drain.batches,
                          !.outOfRange = outOfRange,
                          !.allocations = Allocations(requiredSize, interleavedBuffer),
                          !.readSpans = IF enough THEN read.spans ELSE NoSpans,
                          !.put = PutCount(numSamples, numChannels)]
    /\ UNCHANGED <<currentSampleRate, currentBlockSize, currentNumChannels,
                   bufferingMode, liveFifos>>

\* The call, in a stream whose blocks are counted.
AcceptedFrom(engines, numSamples, numChannels) ==
    AcceptedAt(engines, numSamples, numChannels, streamPos, blockCount + 1)

Accepted(numSamples, numChannels) ==
    AcceptedFrom(EngineAfterPut(processor, PutCount(numSamples, numChannels)),
                 numSamples, numChannels)

processBlock(numSamples, numChannels) ==
    /\ ~crashed
    /\ blockCount < MaxBlocks
    /\ prevOp' = Earlier(lastOp)
    /\ lastOp' = Op("processBlock", 0, 0)
    /\ \/ Refused(numSamples, numChannels)
       \/ Unprepared(numSamples, numChannels)
       \/ Accepted(numSamples, numChannels)

-----------------------------------------------------------------------------
(* AUSoundTouchProcessor around the adapter.  A float (semitones, percent, *)
(* ratio) is an integer count of millionths.                               *)

Micro == 1000 * 1000

\* SoundTouch's pitch, tempo and rate after construction.
UnityRatios == [pitch |-> Micro, tempo |-> Micro, rate |-> Micro]

\* DEFAULT_PITCH_SEMITONES, DEFAULT_TEMPO_PERCENT, DEFAULT_SPEED_PERCENT
DefaultParameters == [pitch |-> 0, tempo |-> 0, speed |-> 0]

\* The ids of the parameters createParameterLayout registers.
ParameterIds == {"pitch", "tempo", "speed"}

\* The audio thread outside processBlock.  In a call, `loaded` are the
\* parameter values it has loaded so far and `unwritten` the parameters no
\* thread has written since the call began.
\* In the drain loop, `temp` is tempBuffer, `passes` tells how many passes
\* the loop has made (0, 1, or more) and `dropped` whether one of them
\* found the ring buffer full.
AudioIdle ==
    [pc |-> "idle", numSamples |-> 0, loaded |-> <<>>, unwritten |-> {},
     replaced |-> FALSE, temp |-> EmptyVector, passes |-> 0, dropped |-> FALSE]

\* No getStateInformation has run.
NoStateData ==
    [tag |-> "none", values |-> <<>>, mode |-> <<>>, restores |-> 0, into |-> "none"]

-----------------------------------------------------------------------------
(* The adapter after construction, and what its caller may do *)

\* The adapter and the processor after construction, but for the values of
\* the parameters; stateData is the host's.
Constructed ==
    /\ currentSampleRate = DefaultSampleRate
    /\ currentBlockSize = DefaultBlockSize
    /\ currentNumChannels = DefaultNumChannels
    /\ bufferingMode = DefaultBufferingMode
    /\ interleavedBuffer = 0
    /\ outputFifo = NoFifo
    /\ fifoBuffer = EmptyVector
    /\ processor = NewEngine
    /\ streamPos = 1
    /\ blockCount = 0
    /\ liveFifos = 0
    /\ crashed = FALSE
    /\ lastOp = Op("none", 0, 0)
    /\ prevOp = Earlier(Op("none", 0, 0))
    /\ call = NoCall
    /\ ratios = UnityRatios
    /\ processorMode = DefaultBufferingMode
    /\ audio = AudioIdle

Init == Constructed /\ parameters = DefaultParameters /\ stateData = NoStateData

\* The adapter used on its own, as the unit tests use it.
Next ==
    \/ \E sampleRate \in SampleRates, blockSize \in BlockSizes,
          numChannels \in ChannelCounts :
          prepare(sampleRate, blockSize, numChannels) /\ UNCHANGED <<ratios, plugin>>
    \/ \E mode \in ModeArgs : setBufferingMode(mode) /\ UNCHANGED <<ratios, plugin>>
    \/ \E numSamples \in BufferFrames, numChannels \in ChannelCounts :
          processBlock(numSamples, numChannels) /\ UNCHANGED <<ratios, plugin>>
    \/ getLatencyInSamples /\ UNCHANGED <<ratios, plugin>>

Spec == Init /\ [][Next]_vars

\* prepare has run: only prepare gives the engine its channel count.
Prepared == processor.channels > 0

-----------------------------------------------------------------------------
(* float arithmetic, in millionths.  The rounding of a float operation is  *)
(* below one part in ten million of its result.                            *)

Abs(a) == IF a < 0 THEN -a ELSE a

\* a * b of two floats: the product of the millionths, in millionths, taken
\* in parts that stay within 32 bits.
MulMicro(a, b) ==
    LET x == Abs(a)
        y == Abs(b)
        xh == x \div 1000
        xl == x % 1000
        yh == y \div 1000
        yl == y % 1000
        m == xh * yh + (xh * yl + xl * yh) \div 1000 + (xl * yl) \div Micro
    IN IF (a < 0) = (b < 0) THEN m ELSE -m

\* std::log (2.0f)
Log2 == 693147

\* The terms x^n / n! of the exponential series from the n-th on, down to
\* the first that is below a millionth.
RECURSIVE ExpTerms(_, _, _)
ExpTerms(x, term, n) ==
    IF term = 0 THEN 0
    ELSE term + ExpTerms(x, MulMicro(term, x) \div (n + 1), n + 1)

RECURSIVE Pow2(_)
Pow2(k) == IF k = 0 THEN 1 ELSE 2 * Pow2(k - 1)

\* std::exp (x): x = k log 2 + r with r in [0, log 2), and
\* exp (x) = 2^k exp (r).
Exp(x) ==
    LET k == x \div Log2
        r == x % Log2
        e == ExpTerms(r, Micro, 0)
    IN IF k >= 0 THEN e * Pow2(k) ELSE e \div Pow2(-k)

\* The exponent is taken as semitones / 12 without the logarithm.
SemitonesToNativeLinear(semitones) == Exp(semitones \div 12)

\* SoundTouchWrapper::semitonesToNative
SemitonesToNative(semitones) == Exp(MulMicro(semitones, Log2) \div 12)

\* The percentage is added to 1 undivided by 100.
PercentageToNativeUndivided(percentage) == Micro + percentage

\* SoundTouchWrapper::percentageToNative
PercentageToNative(percentage) == Micro + percentage \div 100

-----------------------------------------------------------------------------
(* SoundTouchWrapper::setPitch, setTempo, setRate *)

\* processor->setTempo also sets the rate.
TempoAndRateSet(r, nativeValue) == [r EXCEPT !.tempo = nativeValue, !.rate = nativeValue]

\* processor->setPitch (nativeValue)
PitchSet(r, nativeValue) == [r EXCEPT !.pitch = nativeValue]

\* processor->setTempo (nativeValue)
TempoSet(r, nativeValue) == [r EXCEPT !.tempo = nativeValue]

\* processor->setRate (nativeValue)
RateSet(r, nativeValue) == [r EXCEPT !.rate = nativeValue]

setPitch(semitones) ==
    /\ ratios' = PitchSet(ratios, SemitonesToNative(semitones))
    /\ UNCHANGED <<adapter, blockCount, liveFifos, crashed>>

setTempo(percentage) ==
    /\ ratios' = TempoSet(ratios, PercentageToNative(percentage))
    /\ UNCHANGED <<adapter, blockCount, liveFifos, crashed>>

setRate(percentage) ==
    /\ ratios' = RateSet(ratios, PercentageToNative(percentage))
    /\ UNCHANGED <<adapter, blockCount, liveFifos, crashed>>

-----------------------------------------------------------------------------
(* The conversions over the registered ranges of the parameters *)

\* MIN_PITCH_SEMITONES, MAX_PITCH_SEMITONES and the interval of the range
PitchMin == -39800000
PitchMax == 39800000
PitchStep == 10000

\* MIN_TEMPO_PERCENT = MIN_SPEED_PERCENT, MAX_TEMPO_PERCENT =
\* MAX_SPEED_PERCENT and the interval of the two ranges
PercentMin == -90000000
PercentMax == 900000000
PercentStep == 100000

PitchGrid == {PitchMin + i * PitchStep : i \in 0 .. (PitchMax - PitchMin) \div PitchStep}
PercentGrid ==
    {PercentMin + i * PercentStep : i \in 0 .. (PercentMax - PercentMin) \div PercentStep}

\* A value of the pitch range, or a value of the tempo and speed range.
ConversionInit ==
    /\ Constructed
    /\ stateData = NoStateData
    /\ \/ \E semitones \in PitchGrid :
            parameters = [DefaultParameters EXCEPT !.pitch = semitones]
       \/ \E percentage \in PercentGrid :
            parameters = [DefaultParameters EXCEPT !.tempo = percentage,
                                                  !.speed = percentage]

\* One setter call on the adapter with the value of its parameter.
Converted(name) ==
    /\ prevOp' = Earlier(lastOp)
    /\ lastOp' = Op(name, 0, 0)
    /\ UNCHANGED <<call, plugin>>

convertPitch == setPitch(parameters.pitch) /\ Converted("setPitch")
convertTempo == setTempo(parameters.tempo) /\ Converted("setTempo")
convertRate == setRate(parameters.speed) /\ Converted("setRate")

ConversionNext == convertPitch \/ convertTempo \/ convertRate

ConversionSpec == ConversionInit /\ [][ConversionNext]_vars

-----------------------------------------------------------------------------
(* AUSoundTouchProcessor: the host's calls, the editor's, the audio thread *)

\* The channel counts of the layouts isBusesLayoutSupported accepts.
BusChannels == {1, 2}

\* prepareToPlay: the host calls it while the audio thread is not running.
prepareToPlay(sampleRate, samplesPerBlock, totalNumOutputChannels) ==
    /\ audio.pc = "idle"
    /\ prepare(sampleRate, samplesPerBlock, totalNumOutputChannels)
    /\ UNCHANGED <<ratios, plugin>>

\* The audio thread is inside processBlock and the call is not ignored by
\* the adapter: the FIFO, the vector and the engine are written by the
\* calling thread while the audio thread uses them.
Races(mode) == audio.pc # "idle" /\ ~ModeIgnored(mode, bufferingMode)

\* mode >= Minimal: the upper end of the range is not tested.
ModeAcceptedFromMinimal(mode) == mode >= 1

\* mode >= Minimal && mode <= Extra
ModeAccepted(mode) == mode >= 1 /\ mode <= 3

\* AUSoundTouchProcessor::setBufferingMode, on the thread of its caller.
processorSetBufferingMode(mode) ==
    IF ModeAccepted(mode)
    THEN /\ processorMode' = mode
         /\ setBufferingMode(mode)
         /\ audio' = IF Races(mode) THEN [audio EXCEPT !.replaced = TRUE] ELSE audio
         /\ UNCHANGED ratios
    ELSE /\ ~crashed
         /\ blockCount < MaxBlocks
         /\ prevOp' = Earlier(lastOp)
         /\ lastOp' = Op("setBufferingMode", mode, bufferingMode)
         /\ call' = NoCall
         /\ UNCHANGED <<adapter, blockCount, liveFifos, crashed, ratios,
                        processorMode, audio>>

\* bufferingComboBox.onChange, on the message thread.
comboBoxChanged(selectedId) ==
    /\ processorSetBufferingMode(selectedId)
    /\ UNCHANGED <<parameters, stateData>>

\* The ids of the items of bufferingComboBox.
ComboIds == 1 .. 3

\* A step of the audio thread that is not a call of the adapter's
\* processBlock.
AudioStep(name) ==
    /\ ~crashed
    /\ blockCount < MaxBlocks
    /\ prevOp' = Earlier(lastOp)
    /\ lastOp' = Op(name, 0, 0)
    /\ call' = NoCall

\* processBlock is entered by the audio thread with the host's buffer.
blockStart(numSamples) ==
    /\ audio.pc = "idle"
    /\ Prepared
    /\ AudioStep("blockStart")
    /\ audio' = [AudioIdle EXCEPT !.pc = "setPitch", !.numSamples = numSamples,
                                  !.unwritten = ParameterIds]
    /\ UNCHANGED <<adapter, blockCount, liveFifos, crashed, ratios,
                   parameters, processorMode, stateData>>

\* The parameter a reader takes for the one it asked for is always tempo.
LoadTempo(id) == parameters.tempo

\* *pitchParameter, *tempoParameter, *speedParameter: a load of the
\* std::atomic<float> the parameter publishes its value in.
Load(id) == parameters[id]

\* soundTouch.setPitch (*pitchParameter)
blockSetPitch ==
    /\ audio.pc = "setPitch"
    /\ AudioStep("setPitch")
    /\ LET semitones == Load("pitch")
       IN /\ setPitch(semitones)
          /\ audio' = [audio EXCEPT !.pc = "setTempo",
                                    !.loaded = Append(audio.loaded, semitones)]
    /\ UNCHANGED <<parameters, processorMode, stateData>>

\* soundTouch.setTempo (*tempoParameter)
blockSetTempo ==
    /\ audio.pc = "setTempo"
    /\ AudioStep("setTempo")
    /\ LET percentage == Load("tempo")
       IN /\ setTempo(percentage)
          /\ audio' = [audio EXCEPT !.pc = "setRate",
                                    !.loaded = Append(audio.loaded, percentage)]
    /\ UNCHANGED <<parameters, processorMode, stateData>>

\* soundTouch.setRate (*speedParameter)
blockSetRate ==
    /\ audio.pc = "setRate"
    /\ AudioStep("setRate")
    /\ LET percentage == Load("speed")
       IN /\ setRate(percentage)
          /\ audio' = [audio EXCEPT !.pc = "feed",
                                    !.loaded = Append(audio.loaded, percentage)]
    /\ UNCHANGED <<parameters, processorMode, stateData>>

\* soundTouch.processBlock (buffer), steps 1 and 2: the channel check, the
\* feed and the drain.  The host's buffer has the channels of the layout
\* that prepareToPlay saw.
blockFeed ==
    /\ audio.pc = "feed"
    /\ AudioStep("feed")
    /\ \E engine \in EngineAfterPut(processor,
                                  PutCount(audio.numSamples, currentNumChannels)) :
         LET requiredSize == audio.numSamples * currentNumChannels
             drain == DrainLoop(engine.queued, outputFifo, fifoBuffer,
                                VecZero(requiredSize * 2), streamPos,
                                audio.numSamples, currentNumChannels, <<>>)
         IN /\ interleavedBuffer' = Max(interleavedBuffer, requiredSize * 2)
            /\ processor' = [engine EXCEPT !.queued = drain.queued]
            /\ streamPos' = drain.pos
            /\ fifoBuffer' = drain.vec
            /\ outputFifo' = drain.fifo
    /\ audio' = [audio EXCEPT !.pc = "read"]
    /\ UNCHANGED <<currentSampleRate, currentBlockSize, currentNumChannels,
                   bufferingMode, blockCount, liveFifos, crashed, ratios,
                   parameters, processorMode, stateData>>

\* soundTouch.processBlock (buffer), step 3, and the return to the host.
blockRead ==
    /\ audio.pc = "read"
    /\ ~crashed
    /\ blockCount < MaxBlocks
    /\ prevOp' = Earlier(lastOp)
    /\ lastOp' = Op("processBlock", 0, 0)
    /\ LET numSamples == audio.numSamples
           numChannels == currentNumChannels
           availableInFifo == NumReady(outputFifo) \div numChannels
           enough == EnoughReady(availableInFifo, numSamples)
           read == ReadStage(outputFifo, fifoBuffer, numSamples, numChannels)
       IN /\ outputFifo' = FifoAfterRead(enough, outputFifo, read.fifo)
          /\ blockCount' = blockCount + 1
          /\ call' = [NoCall EXCEPT
                        !.outcome = IF enough THEN "PROCESSED" ELSE "PASSTHROUGH",
                        !.numSamples = numSamples, !.numChannels = numChannels,
                        !.input = HostBuffer(numChannels, numSamples),
                        !.output = IF enough THEN read.output
                                   ELSE HostBuffer(numChannels, numSamples),
                        !.drained = outputFifo,
                        !.available = availableInFifo,
                        !.outOfRange = enough /\ read.outOfRange,
                        !.allocations = Allocations(numSamples * numChannels,
                                                    interleavedBuffer),
                        !.readSpans = IF enough THEN read.spans ELSE NoSpans,
                        !.put = PutCount(numSamples, numChannels)]
    /\ audio' = AudioIdle
    /\ UNCHANGED <<currentSampleRate, currentBlockSize, currentNumChannels,
                   bufferingMode, interleavedBuffer, fifoBuffer, processor,
                   streamPos, liveFifos, crashed, ratios,
                   parameters, processorMode, stateData>>

\* The FIFO, the vector or the engine was written by another thread while
\* the audio thread was in processBlock: a data race, after which the audio
\* thread may go on with what it finds, or end the process (a FIFO that was
\* destroyed, a vector whose storage was moved).
blockCrash ==
    /\ audio.pc # "idle"
    /\ audio.replaced
    /\ AudioStep("crash")
    /\ crashed' = TRUE
    /\ audio' = [audio EXCEPT !.pc = "crashed"]
    /\ UNCHANGED <<adapter, blockCount, liveFifos, ratios,
                   parameters, processorMode, stateData>>

\* Values a host or the editor gives the parameters: the default and one
\* other each.
ParameterValues ==
    [pitch |-> {0, 12 * Micro}, tempo |-> {0, 50 * Micro}, speed |-> {0, -25 * Micro}]

\* A parameter is given a value, on the thread of the host or of the
\* editor: a store to the std::atomic<float> of the parameter.
parameterChanged(id, value) ==
    /\ ~crashed
    /\ blockCount < MaxBlocks
    /\ parameters' = [parameters EXCEPT ![id] = value]
    /\ audio' = IF audio.pc = "idle" THEN audio
                ELSE [audio EXCEPT !.unwritten = audio.unwritten \ {id}]
    /\ UNCHANGED <<adapter, blockCount, liveFifos, crashed, lastOp, prevOp, call,
                   ratios, processorMode, stateData>>

\* The plugin in a host: the audio thread runs processBlock while the
\* message thread serves the editor's buffering combo box.
RaceNext ==
    \/ \E numChannels \in BusChannels :
          prepareToPlay(DefaultSampleRate, DefaultBlockSize, numChannels)
    \/ \E selectedId \in ComboIds : comboBoxChanged(selectedId)
    \/ \E numSamples \in {DefaultBlockSize} : blockStart(numSamples)
    \/ blockSetPitch
    \/ blockSetTempo
    \/ blockSetRate
    \/ blockFeed
    \/ blockRead
    \/ blockCrash

RaceSpec == Init /\ [][RaceNext]_vars

\* The state of the plugin as the host keeps it: stateData is the block of
\* memory the host holds, as getStateInformation filled it or as the host
\* passed it last to setStateInformation.  Its `tag` is the name of the XML
\* element ("none": no XML in the block), `values` the text of the value of
\* each parameter, `mode` the bufferingMode attribute, absent (<<>>) or
\* present (<<m>>).  `restores` counts the calls of setStateInformation with
\* this block, and `into` tells whether the last of them was on a processor
\* just constructed.

\* parameters.state.getType()
StateType == "AUSoundTouchParameters"

\* A float as the text of an XML attribute: sign, digits before the point,
\* digits after it.
ToText(v) == [negative |-> v < 0, whole |-> Abs(v) \div Micro, fraction |-> Abs(v) % Micro]

\* getFloatValue of the text
FromText(t) == (IF t.negative THEN -1 ELSE 1) * (t.whole * Micro + t.fraction)

\* The NormalisableRange of each parameter, in intervals of the range.
Ranges ==
    [pitch |-> [start |-> PitchMin, interval |-> PitchStep,
                length |-> (PitchMax - PitchMin) \div PitchStep],
     tempo |-> [start |-> PercentMin, interval |-> PercentStep,
                length |-> (PercentMax - PercentMin) \div PercentStep],
     speed |-> [start |-> PercentMin, interval |-> PercentStep,
                length |-> (PercentMax - PercentMin) \div PercentStep]]

\* A float between 0 and 1 resolves a ten-millionth.
NormalScale == 10 * Micro

\* a * scale / r rounded down, scale a power of ten, by long division.
RECURSIVE Quotient(_, _, _)
Quotient(a, r, scale) ==
    IF scale = 1 THEN a \div r
    ELSE ((a * 10) \div r) * (scale \div 10) + Quotient((a * 10) % r, r, scale \div 10)

\* convertTo0to1: (v - start) / (end - start), clamped, in NormalScale-ths.
ConvertTo0to1(id, v) ==
    LET range == Ranges[id]
        clamped == Max(range.start, Min(v, range.start + range.length * range.interval))
    IN Quotient((clamped - range.start) \div range.interval, range.length, NormalScale)

\* convertFrom0to1: start + (end - start) * n, snapped to the legal value
\* next to it, start + interval * floor ((v - start) / interval + 0.5).
ConvertFrom0to1(id, n) ==
    LET range == Ranges[id]
        high == n \div (NormalScale \div 1000)
        low == n % (NormalScale \div 1000)
        thousandths == high * range.length + (low * range.length) \div (NormalScale \div 1000)
    IN range.start + range.interval * ((thousandths + 500) \div 1000)

\* The value a parameter takes from the text of a restored state:
\* setValueNotifyingHost (convertTo0to1 (value)), and the parameter keeps
\* convertFrom0to1 of it.
Restored(id, text) == ConvertFrom0to1(id, ConvertTo0to1(id, FromText(text)))

\* getIntAttribute ("bufferingMode", 0): a state without the attribute
\* gives a mode that is not accepted.
SavedBufferingModeOrNone(data) == IF data.mode = <<>> THEN 0 ELSE data.mode[1]

\* getIntAttribute ("bufferingMode", Normal)
SavedBufferingMode(data) ==
    IF data.mode = <<>> THEN DefaultBufferingMode ELSE data.mode[1]

\* new AUSoundTouchProcessor(): the processor the host had is replaced by
\* one just constructed; the host keeps the state it holds.
construct ==
    /\ currentSampleRate' = DefaultSampleRate
    /\ currentBlockSize' = DefaultBlockSize
    /\ currentNumChannels' = DefaultNumChannels
    /\ bufferingMode' = DefaultBufferingMode
    /\ interleavedBuffer' = 0
    /\ outputFifo' = NoFifo
    /\ fifoBuffer' = EmptyVector
    /\ processor' = NewEngine
    /\ streamPos' = 1
    /\ blockCount' = 0
    /\ liveFifos' = 0
    /\ crashed' = FALSE
    /\ lastOp' = Op("none", 0, 0)
    /\ prevOp' = Earlier(Op("none", 0, 0))
    /\ call' = NoCall
    /\ ratios' = UnityRatios
    /\ parameters' = DefaultParameters
    /\ processorMode' = DefaultBufferingMode
    /\ audio' = AudioIdle
    /\ UNCHANGED stateData

\* AUSoundTouchProcessor::getStateInformation
getStateInformation ==
    /\ ~crashed
    /\ stateData' = [tag |-> StateType,
                     values |-> [id \in ParameterIds |-> ToText(parameters[id])],
                     mode |-> <<processorMode>>,
                     restores |-> 0, into |-> "none"]
    /\ UNCHANGED <<adapter, blockCount, liveFifos, crashed, lastOp, prevOp, call,
                   ratios, parameters, processorMode, audio>>

\* What a host may pass for a state it holds: the state; the state without
\* the bufferingMode attribute (one saved by a version that had none); the
\* state with another value of the attribute; the XML of another plugin; a
\* block without XML.
MaxRestores == 2
ForeignModes == {0, MaxModeArg}
StatesPassed(held) ==
    IF held.tag = "none" THEN {held}
    ELSE {held, [held EXCEPT !.mode = <<>>], [held EXCEPT !.tag = "other"],
          [held EXCEPT !.tag = "none"]}
         \cup {[held EXCEPT !.mode = <<m>>] : m \in ForeignModes}

\* The processor is as the constructor left it.
Fresh == Constructed /\ parameters = DefaultParameters

\* AUSoundTouchProcessor::setStateInformation
setStateInformation(data) ==
    /\ ~crashed
    /\ blockCount < MaxBlocks
    /\ data.restores < MaxRestores
    /\ stateData' = [data EXCEPT !.restores = data.restores + 1,
                                 !.into = IF Fresh THEN "fresh" ELSE "used"]
    /\ IF data.tag = "none"
       THEN UNCHANGED <<adapter, blockCount, liveFifos, crashed, lastOp, prevOp, call,
                        ratios, parameters, processorMode, audio>>
       ELSE /\ parameters' = IF data.tag = StateType
                             THEN [id \in ParameterIds |-> Restored(id, data.values[id])]
                             ELSE parameters
            /\ processorSetBufferingMode(SavedBufferingMode(data))

\* The plugin in a host that saves and restores its state.
StateNext ==
    \/ construct
    \/ \E numChannels \in {DefaultNumChannels} :
          prepareToPlay(DefaultSampleRate, DefaultBlockSize, numChannels)
    \/ \E id \in ParameterIds : \E value \in ParameterValues[id] :
          parameterChanged(id, value)
    \/ \E selectedId \in ComboIds : comboBoxChanged(selectedId)
    \/ getStateInformation
    \/ \E data \in StatesPassed(stateData) : setStateInformation(data)

StateSpec == Init /\ [][StateNext]_vars

\* An engine that returns its input unchanged: the frames put come out in
\* their order, at once, or after the engine has held one block of them.
IdentityEngineAfterPut(e, numSamples) ==
    LET pending == e.unprocessed + numSamples
    IN {[e EXCEPT !.unprocessed = 0, !.queued = e.queued + pending]}
       \cup (IF e.unprocessed = 0
             THEN {[e EXCEPT !.unprocessed = pending]}
             ELSE {})

\* The adapter around such an engine: one prepare with a block size and a
\* channel count, any buffering mode, then blocks of the prepared size.
MaxBridgeBlocks == 4

bridgePrepare(blockSize, numChannels) ==
    /\ ~Prepared
    /\ prepare(DefaultSampleRate, blockSize, numChannels)
    /\ UNCHANGED <<ratios, plugin>>

bridgeMode(mode) ==
    /\ blockCount < MaxBridgeBlocks
    /\ setBufferingMode(mode)
    /\ UNCHANGED <<ratios, plugin>>

bridgeBlock ==
    /\ ~crashed
    /\ Prepared
    /\ blockCount < MaxBridgeBlocks
    /\ prevOp' = Earlier(lastOp)
    /\ lastOp' = Op("processBlock", 0, 0)
    /\ AcceptedFrom(IdentityEngineAfterPut(processor, PutCount(currentBlockSize,
                                                            currentNumChannels)),
                    currentBlockSize, currentNumChannels)
    /\ UNCHANGED <<ratios, plugin>>

BridgeNext ==
    \/ \E blockSize \in BufferFrames, numChannels \in ChannelCounts :
          bridgePrepare(blockSize, numChannels)
    \/ \E mode \in 1 .. 3 : bridgeMode(mode)
    \/ bridgeBlock

BridgeSpec == Init /\ [][BridgeNext]_vars

\* processBlock pass by pass: the adapter on one thread, the drain loop of
\* a call one pass at a time.  A block has no frame, or LargeBlock frames.
DrainFrames == {0, LargeBlock}

drainPrepare(blockSize, numChannels) ==
    /\ audio.pc = "idle"
    /\ prepare(DefaultSampleRate, blockSize, numChannels)
    /\ UNCHANGED <<ratios, plugin>>

drainMode(mode) ==
    /\ audio.pc = "idle"
    /\ setBufferingMode(mode)
    /\ UNCHANGED <<ratios, plugin>>

\* The call passes the channel check; step 1, and tempBuffer is made.
drainEnter(numSamples) ==
    /\ audio.pc = "idle"
    /\ Prepared
    /\ AudioStep("blockStart")
    /\ LET requiredSize == numSamples * currentNumChannels
       IN /\ \E engine \in EngineAfterPut(processor,
                                          PutCount(numSamples, currentNumChannels)) :
                processor' = engine
          /\ interleavedBuffer' = Max(interleavedBuffer, requiredSize * 2)
          /\ audio' = [AudioIdle EXCEPT !.pc = "drain", !.numSamples = numSamples,
                                        !.temp = VecZero(requiredSize * 2)]
    /\ UNCHANGED <<currentSampleRate, currentBlockSize, currentNumChannels,
                   bufferingMode, outputFifo, fifoBuffer, streamPos, blockCount,
                   liveFifos, crashed, ratios, parameters, processorMode, stateData>>

\* The loop's condition is evaluated and, if the loop is not left, its body
\* runs once.
drainPass ==
    /\ audio.pc = "drain"
    /\ ~crashed
    /\ \E pass \in {DrainOnce(processor.queued, outputFifo, fifoBuffer, audio.temp,
                              streamPos, audio.numSamples, currentNumChannels)} :
          IF pass.ends
          THEN /\ audio' = [audio EXCEPT !.pc = "read", !.temp = EmptyVector]
               /\ UNCHANGED <<processor, outputFifo, fifoBuffer, streamPos>>
          ELSE /\ processor' = [processor EXCEPT !.queued = pass.queued]
               /\ outputFifo' = pass.fifo
               /\ fifoBuffer' = pass.vec
               /\ streamPos' = pass.pos
               /\ audio' = [audio EXCEPT
                              !.temp = pass.temp,
                              !.passes = Min(audio.passes + 1, 2),
                              !.dropped = audio.dropped
                                          \/ pass.batch.samplesToWrite = 0]
    /\ UNCHANGED <<currentSampleRate, currentBlockSize, currentNumChannels,
                   bufferingMode, interleavedBuffer, blockCount, liveFifos, crashed,
                   lastOp, prevOp, call, ratios, parameters, processorMode, stateData>>

DrainNext ==
    \/ \E numChannels \in ChannelCounts : drainPrepare(SmallBlock, numChannels)
    \/ drainMode(1)
    \/ \E numSamples \in DrainFrames : drainEnter(numSamples)
    \/ drainPass
    \/ blockRead

\* The thread that is in a call goes on with it.
DrainSpec ==
    Init /\ [][DrainNext]_vars /\ WF_vars(drainPass \/ blockRead)

\* The adapter with all its operations: prepare, setBufferingMode,
\* processBlock and the three setters, in any order.
SetPitchArgs == {PitchMax}
SetPercentArgs == {PercentMax}

configPrepare(blockSize, numChannels) ==
    /\ prepare(DefaultSampleRate, blockSize, numChannels)
    /\ UNCHANGED <<ratios, plugin>>

configMode(mode) == setBufferingMode(mode) /\ UNCHANGED <<ratios, plugin>>

configBlock(numSamples, numChannels) ==
    /\ processBlock(numSamples, numChannels)
    /\ UNCHANGED <<ratios, plugin>>

configPitch(semitones) == setPitch(semitones) /\ Converted("setPitch")

configTempo(percentage) == setTempo(percentage) /\ Converted("setTempo")

configRate(percentage) == setRate(percentage) /\ Converted("setRate")

ConfigNext ==
    \/ \E blockSize \in BlockSizes, numChannels \in BusChannels :
          configPrepare(blockSize, numChannels)
    \/ \E mode \in ModeArgs : configMode(mode)
    \/ \E numSamples \in BufferFrames, numChannels \in BusChannels :
          configBlock(numSamples, numChannels)
    \/ \E semitones \in SetPitchArgs : configPitch(semitones)
    \/ \E percentage \in SetPercentArgs : configTempo(percentage)
    \/ \E percentage \in SetPercentArgs : configRate(percentage)

ConfigSpec == Init /\ [][ConfigNext]_vars

\* A stream without end: a mode is selected, the adapter is prepared once,
\* and blocks of the prepared size arrive for ever.  The engine returns its
\* input one block late: it keeps the frames of the last putSamples and
\* emits those it kept before.  Of the number of blocks only the parity is
\* kept, and the engine's output is told by its place in the call's output.
LateEngineAfterPut(e, numSamples) ==
    {[e EXCEPT !.unprocessed = numSamples, !.queued = e.queued + e.unprocessed]}

StreamChannels == BusChannels \cup {MinimalBlocks}

streamMode(mode) ==
    /\ ~Prepared
    /\ setBufferingMode(mode)
    /\ UNCHANGED <<ratios, plugin>>

streamPrepare(blockSize, numChannels) ==
    /\ ~Prepared
    /\ prepare(DefaultSampleRate, blockSize, numChannels)
    /\ UNCHANGED <<ratios, plugin>>

streamBlock ==
    /\ ~crashed
    /\ Prepared
    /\ prevOp' = Earlier(lastOp)
    /\ lastOp' = Op("processBlock", 0, 0)
    /\ AcceptedAt(LateEngineAfterPut(processor, PutCount(currentBlockSize,
                                                      currentNumChannels)),
                  currentBlockSize, currentNumChannels, 1, 1 - blockCount)
    /\ UNCHANGED <<ratios, plugin>>

StreamNext ==
    \/ \E mode \in 1 .. 3 : streamMode(mode)
    \/ \E blockSize \in BufferFrames, numChannels \in StreamChannels :
          streamPrepare(blockSize, numChannels)
    \/ streamBlock

\* The host keeps calling processBlock once the adapter is prepared.
StreamSpec == Init /\ [][StreamNext]_vars /\ WF_vars(streamBlock)

\* The plugin whose buffering mode is set by callers of setBufferingMode, with
\* any integer, and by the host restoring states, while audio goes through
\* it.  The audio thread's call is taken as a whole: the three setters with
\* the parameters' values, then the adapter's processBlock.
modeSet(mode) ==
    /\ audio.pc = "idle"
    /\ processorSetBufferingMode(mode)
    /\ UNCHANGED <<parameters, stateData>>

modeBlock(numSamples) ==
    /\ audio.pc = "idle"
    /\ Prepared
    /\ ratios' = RateSet(TempoSet(PitchSet(ratios, SemitonesToNative(Load("pitch"))),
                                  PercentageToNative(Load("tempo"))),
                         PercentageToNative(Load("speed")))
    /\ processBlock(numSamples, currentNumChannels)
    /\ UNCHANGED plugin

modeSave == audio.pc = "idle" /\ getStateInformation

modeRestore(data) == audio.pc = "idle" /\ setStateInformation(data)

ModeNext ==
    \/ \E numChannels \in BusChannels :
          prepareToPlay(DefaultSampleRate, DefaultBlockSize, numChannels)
    \/ \E mode \in ModeArgs : modeSet(mode)
    \/ \E numSamples \in BufferFrames : modeBlock(numSamples)
    \/ modeSave
    \/ \E data \in StatesPassed(stateData) : modeRestore(data)

ModeSpec == Init /\ [][ModeNext]_vars

\* A stream of blocks of the prepared size through an adapter prepared
\* once with the defaults, pitch, tempo and rate left at unity.
MaxSteadyBlocks == 12

steadyPrepare ==
    /\ outputFifo = NoFifo
    /\ prepare(DefaultSampleRate, DefaultBlockSize, DefaultNumChannels)
    /\ UNCHANGED <<ratios, plugin>>

steadyBlock ==
    /\ ~crashed
    /\ blockCount < MaxSteadyBlocks
    /\ ratios = UnityRatios
    /\ prevOp' = Earlier(lastOp)
    /\ lastOp' = Op("processBlock", 0, 0)
    /\ AcceptedFrom(UnityEngineAfterPut(processor, PutCount(DefaultBlockSize,
                                                         DefaultNumChannels)),
                    DefaultBlockSize, DefaultNumChannels)
    /\ UNCHANGED <<ratios, plugin>>

SteadyNext == steadyPrepare \/ steadyBlock

SteadySpec == Init /\ [][SteadyNext]_vars

\* The plugin in a host: the audio thread runs processBlock while another
\* thread changes the parameters.
ControlNext ==
    \/ \E numChannels \in BusChannels :
          prepareToPlay(DefaultSampleRate, DefaultBlockSize, numChannels)
    \/ \E id \in ParameterIds : \E value \in ParameterValues[id] :
          parameterChanged(id, value)
    \/ \E numSamples \in {DefaultBlockSize} : blockStart(numSamples)
    \/ blockSetPitch
    \/ blockSetTempo
    \/ blockSetRate
    \/ blockFeed
    \/ blockRead

ControlSpec == Init /\ [][ControlNext]_vars

-----------------------------------------------------------------------------
(* What the claims speak of *)

\* The last operation was a processBlock call that passed the channel check
\* on an adapter with a ring buffer.
BlockRan ==
    /\ lastOp.name = "processBlock"
    /\ call.outcome \notin {"REFUSED", "CRASH"}

\* The occupancy of FIFO f in frames of numChannels samples, from its cursors.
OccupancyFrames(f, numChannels) ==
    IF f.bufferSize = 0 THEN 0
    ELSE ((f.validEnd - f.validStart + f.bufferSize) % f.bufferSize) \div numChannels

\* The sample at distance k from the read cursor of FIFO f in vector vec.
Buffered(f, vec, k) == VecAt(vec, (f.validStart + k) % f.bufferSize)

\* A run of vector v holds engine output.
HoldsAudio(v) == \E r \in v.runs : r.v0 > 0

EngineCleared == processor.unprocessed = 0 /\ processor.queued = 0

-----------------------------------------------------------------------------
\* C1: a processBlock call with the prepared channel count ends PROCESSED
\* when the ring buffer held, after the drain, at least as many frames as
\* the block has, PASSTHROUGH when it held fewer, and in no other way.
C1_OutcomeByOccupancy ==
    (lastOp.name = "processBlock" /\ Prepared
        /\ call.numChannels = currentNumChannels)
    => /\ call.outcome \in {"PROCESSED", "PASSTHROUGH"}
       /\ call.outcome = "PROCESSED"
            <=> OccupancyFrames(call.drained, call.numChannels) >= call.numSamples

\* A block that was processed with exactly one block of frames buffered.
C1_Witness ==
    /\ BlockRan /\ call.outcome = "PROCESSED"
    /\ OccupancyFrames(call.drained, call.numChannels) = call.numSamples
    /\ call.numSamples > 0

-----------------------------------------------------------------------------
\* C2: a PASSTHROUGH block leaves the host buffer as it was passed in, and
\* its read stage takes nothing from the ring buffer: the occupancy at the
\* end of the call is the occupancy after the drain, and is not below the
\* occupancy the call started with.
C2_PassthroughIsDry ==
    (BlockRan /\ call.outcome = "PASSTHROUGH")
    => /\ call.output = call.input
       /\ \A c \in 1 .. call.numChannels :
             /\ GetSample(call.output, c - 1, 0) = -c
             /\ GetSample(call.output, c - 1, call.numSamples - 1)
                  = -((call.numSamples - 1) * call.numChannels + c)
       /\ outputFifo = call.drained
       /\ NumReady(outputFifo) >= call.readyBefore

\* A PASSTHROUGH block with frames waiting in the ring buffer.
C2_Witness ==
    /\ BlockRan /\ call.outcome = "PASSTHROUGH"
    /\ NumReady(outputFifo) > 0
    /\ call.numSamples > 0

-----------------------------------------------------------------------------
\* C3: a PROCESSED block of N frames has frame k of every channel, for every
\* k below N, set to the k-th oldest frame of the ring buffer, writes no
\* frame index outside 0 .. N-1, and takes exactly N frames from the ring
\* buffer.
C3_ProcessedDeliversOldest ==
    (BlockRan /\ call.outcome = "PROCESSED")
    => /\ ~call.outOfRange
       /\ NumReady(outputFifo)
            = NumReady(call.drained) - call.numSamples * call.numChannels
       /\ \A c \in 1 .. call.numChannels : \A k \in 0 .. call.numSamples - 1 :
             GetSample(call.output, c - 1, k)
               = Buffered(call.drained, fifoBuffer, k * call.numChannels + c - 1)

-----------------------------------------------------------------------------
\* C4: a processBlock call whose buffer has another channel count than the
\* adapter's leaves the host buffer as it was and changes nothing of the
\* adapter, its engine or its ring buffer.
C4_RefusedChangesNothing ==
    [][(lastOp'.name = "processBlock" /\ call'.numChannels # currentNumChannels)
       => /\ call'.output = call'.input
          /\ call'.output = HostBuffer(call'.numChannels, call'.numSamples)
          /\ UNCHANGED <<adapter, blockCount, liveFifos, crashed>>]_vars

\* A refused call in mid-stream: frames wait in the ring buffer and in the
\* engine.
C4_Witness ==
    /\ lastOp.name = "processBlock" /\ call.outcome = "REFUSED"
    /\ call.numChannels # currentNumChannels /\ call.numSamples >= 1
    /\ NumReady(outputFifo) > 0 /\ processor.unprocessed > 0

-----------------------------------------------------------------------------
\* C5: a processBlock call with another channel count than the adapter's
\* leaves its caller a report of the error.  The call returns nothing, so
\* the report can only be the logged assertion failure.
C5_RefusalIsReported ==
    (lastOp.name = "processBlock" /\ Prepared
        /\ call.numChannels # currentNumChannels)
    => call.logged

-----------------------------------------------------------------------------
\* The frames FIFO f has free.
FreeFrames(f, numChannels) ==
    (f.bufferSize - 1 - ((f.validEnd - f.validStart + f.bufferSize) % f.bufferSize))
        \div numChannels

\* Index i of FIFO f holds a sample that is ready and not yet read.
Undelivered(f, i) ==
    IF f.validEnd >= f.validStart
    THEN f.validStart <= i /\ i < f.validEnd
    ELSE i >= f.validStart \/ i < f.validEnd

\* No index of start .. start + size - 1 holds an undelivered sample of f.
SpanIsFree(f, start, size) ==
    size > 0 => /\ ~Undelivered(f, start)
                /\ ~Undelivered(f, start + size - 1)
                /\ start + size <= f.bufferSize
                /\ ~(start <= f.validStart /\ f.validStart < start + size
                       /\ f.validStart # f.validEnd)

\* C6: of every batch received in the drain, min(received, free) frames are
\* written, in the batch's order, into free slots of the ring buffer; the
\* rest is dropped.  The ring buffer keeps its size, its read cursor does not
\* move in the drain, and the frames that were waiting keep their values.
C6_DrainDiscardsExcess ==
    BlockRan
    => /\ fifoBuffer.size = call.vecBefore.size
       /\ call.drained.bufferSize = call.before.bufferSize
       /\ call.readyBefore > 0
            => /\ Buffered(call.before, fifoBuffer, 0)
                    = Buffered(call.before, call.vecBefore, 0)
               /\ Buffered(call.before, fifoBuffer, call.readyBefore - 1)
                    = Buffered(call.before, call.vecBefore, call.readyBefore - 1)
       /\ \A i \in 1 .. Len(call.batches) :
            LET b == call.batches[i]
                n == call.numChannels
                written == Min(b.received, FreeFrames(b.fifo, n))
            IN /\ b.samplesToWrite = written
               /\ NumReady(b.after) = NumReady(b.fifo) + written * n
               /\ NumReady(b.after) <= b.fifo.bufferSize - 1
               /\ b.after.validStart = b.fifo.validStart
               /\ b.after.bufferSize = b.fifo.bufferSize
               /\ b.spans.size1 + b.spans.size2 = written * n
               /\ SpanIsFree(b.fifo, b.spans.start1, b.spans.size1)
               /\ SpanIsFree(b.fifo, b.spans.start2, b.spans.size2)
               /\ written > 0
                    => /\ VecAt(fifoBuffer, b.fifo.validEnd) = b.pos
                       /\ VecAt(fifoBuffer,
                                (b.fifo.validEnd + written * n - 1) % b.fifo.bufferSize)
                            = b.pos + written * n - 1

\* A drain that met a ring buffer with frames waiting, wrote part of one
\* batch and dropped another one whole.
C6_Witness ==
    /\ BlockRan /\ call.readyBefore > 0
    /\ \E i \in 1 .. Len(call.batches) :
          /\ call.batches[i].samplesToWrite > 0
          /\ call.batches[i].samplesToWrite < call.batches[i].received
    /\ \E i \in 1 .. Len(call.batches) :
          /\ call.batches[i].samplesToWrite = 0
          /\ call.batches[i].received > 0

-----------------------------------------------------------------------------
\* The ring-buffer size the policy gives a mode, for a block size.
Policy(mode, blockSize) ==
    LET floor == <<MinimalFloor, NormalFloor, ExtraFloor>>[mode]
        blocks == <<MinimalBlocks, NormalBlocks, ExtraBlocks>>[mode]
    IN IF floor > blocks * blockSize THEN floor ELSE blocks * blockSize

\* The ring buffer is a new, empty one of mode's size, and the engine is
\* cleared.
ResetTo(mode) ==
    /\ bufferingMode = mode
    /\ outputFifo.bufferSize = Policy(mode, currentBlockSize)
    /\ outputFifo.validStart = outputFifo.validEnd
    /\ OccupancyFrames(outputFifo, currentNumChannels) = 0
    /\ EngineCleared

\* C7, as claimed: every setBufferingMode (m) with m among 1, 2, 3 on a
\* prepared adapter leaves an empty ring buffer of m's size and the engine
\* cleared.
C7_ModeCallResets ==
    (lastOp.name = "setBufferingMode" /\ lastOp.mode \in 1 .. 3 /\ Prepared)
    => ResetTo(lastOp.mode)

\* C7, amended: every setBufferingMode (m) with m among 1, 2, 3 and other
\* than the mode in force, on a prepared adapter, leaves an empty ring
\* buffer constructed with m's size and the engine cleared.
C7_ModeChangeResets ==
    (lastOp.name = "setBufferingMode" /\ lastOp.mode \in 1 .. 3 /\ Prepared
        /\ lastOp.mode # lastOp.was)
    => ResetTo(lastOp.mode)

\* A change of mode on an adapter through whose ring buffer audio has gone.
C7_Witness ==
    /\ lastOp.name = "setBufferingMode" /\ lastOp.mode \in 1 .. 3 /\ Prepared
    /\ lastOp.mode # lastOp.was
    /\ blockCount > 0 /\ HoldsAudio(fifoBuffer)

-----------------------------------------------------------------------------
\* C8: setBufferingMode (1) followed at once by setBufferingMode (3) ends
\* with an empty ring buffer of the Extra size, the engine cleared, and one
\* ring buffer alive.
C8_MinimalThenExtra ==
    (lastOp.name = "setBufferingMode" /\ lastOp.mode = 3
        /\ prevOp.name = "setBufferingMode" /\ prevOp.mode = 1)
    => /\ ResetTo(3)
       /\ outputFifo # NoFifo
       /\ liveFifos = 1

\* The two calls made in mid-stream.
C8_Witness ==
    /\ lastOp.name = "setBufferingMode" /\ lastOp.mode = 3
    /\ prevOp.name = "setBufferingMode" /\ prevOp.mode = 1
    /\ Prepared /\ blockCount > 0 /\ HoldsAudio(fifoBuffer)

-----------------------------------------------------------------------------
\* C9: after prepare or a change of mode the ring buffer can take
\* max(4096, 8 blockSize), max(16384, 32 blockSize) or max(32768, 64
\* blockSize) frames, by the mode, before the drain drops any.
C9_CapacityInFrames ==
    (Prepared
        /\ \/ lastOp.name = "prepare"
           \/ /\ lastOp.name = "setBufferingMode"
              /\ lastOp.mode \in 1 .. 3 /\ lastOp.mode # lastOp.was)
    => FreeFrames(outputFifo, currentNumChannels)
         = Policy(bufferingMode, currentBlockSize)

-----------------------------------------------------------------------------
\* C10: the latency query returns the engine's unconsumed input plus the
\* ring buffer's occupancy in frames, as they are when it is called, and
\* changes nothing.
C10_LatencyIsDerived ==
    [][lastOp'.name = "getLatencyInSamples"
       => /\ call'.result
               = processor.unprocessed
                 + OccupancyFrames(outputFifo, currentNumChannels)
          /\ UNCHANGED <<adapter, blockCount, liveFifos, crashed>>]_vars

\* A query that found input waiting in the engine and frames in the ring.
C10_Witness ==
    /\ lastOp.name = "getLatencyInSamples"
    /\ processor.unprocessed > 0
    /\ OccupancyFrames(outputFifo, currentNumChannels) > 0
    /\ NumReady(outputFifo) > OccupancyFrames(outputFifo, currentNumChannels)
    /\ call.result
         = processor.unprocessed + OccupancyFrames(outputFifo, currentNumChannels)

-----------------------------------------------------------------------------
\* C11: in every reachable state the latency query would return, and where
\* it ran it did return, a number that is not negative; on an adapter that
\* was constructed and never given a ring buffer it is 0.
C11_LatencyNotNegative ==
    /\ LatencyInSamples >= 0
    /\ lastOp.name = "getLatencyInSamples" => call.result >= 0
    /\ (~Prepared /\ outputFifo = NoFifo)
         => /\ LatencyInSamples = 0
            /\ lastOp.name = "getLatencyInSamples" => call.result = 0

\* Frames wait in a ring buffer whose write cursor has wrapped around and
\* stands below its read cursor.
C11_Witness ==
    /\ Prepared /\ blockCount > 0
    /\ outputFifo.validEnd < outputFifo.validStart
    /\ LatencyInSamples > 0

-----------------------------------------------------------------------------
\* C12: a prepare call that repeats the prepare call before it, with the
\* same arguments, changes nothing of the adapter: the configuration, the
\* mode, the ring buffer (of the mode's size, empty), the vectors and the
\* engine (cleared) are as the first call left them.
C12_PrepareIdempotent ==
    [][(lastOp'.name = "prepare" /\ lastOp'.was = 1)
       => /\ UNCHANGED <<adapter, liveFifos, blockCount, crashed>>
          /\ outputFifo'.bufferSize = Policy(bufferingMode', currentBlockSize')
          /\ NumReady(outputFifo') = 0
          /\ processor'.unprocessed = 0 /\ processor'.queued = 0]_vars

\* prepare was repeated on an adapter through whose ring buffer audio has
\* gone, in a mode other than the default.
C12_Witness ==
    /\ lastOp.name = "prepare" /\ lastOp.was = 1
    /\ blockCount > 0 /\ HoldsAudio(fifoBuffer)
    /\ bufferingMode # DefaultBufferingMode

-----------------------------------------------------------------------------
\* C13: while the audio thread is between the start and the end of a
\* processBlock call, no other thread has replaced or resized the ring
\* buffer through setBufferingMode.
C13_NoModeChangeInBlock == ~(audio.pc # "idle" /\ audio.replaced)

-----------------------------------------------------------------------------
\* The audio thread takes the step from position pc to position next.
AudioMoves(pc, next) == audio.pc = pc /\ audio'.pc = next

\* C14: in a processBlock call the audio thread loads each of the three
\* parameters once, each in one step, and the ratio it hands to the engine
\* is the conversion of the value the parameter held when it was loaded,
\* whatever another thread writes in between; the call does not end the
\* process.
C14_AtomicLoads ==
    [][/\ AudioMoves("setPitch", "setTempo")
          => /\ audio.loaded = <<>>
             /\ audio'.loaded = <<parameters.pitch>>
             /\ ratios'.pitch = SemitonesToNative(parameters.pitch)
       /\ AudioMoves("setTempo", "setRate")
          => /\ audio'.loaded = Append(audio.loaded, parameters.tempo)
             /\ ratios'.tempo = PercentageToNative(parameters.tempo)
       /\ AudioMoves("setRate", "feed")
          => /\ audio'.loaded = Append(audio.loaded, parameters.speed)
             /\ ratios'.rate = PercentageToNative(parameters.speed)
       /\ AudioMoves("feed", "read") => Len(audio.loaded) = 3
       /\ audio.pc # "idle" => audio'.pc \notin {"crash", "crashed"} /\ ~crashed'
      ]_vars

\* The block is about to be fed with three ratios that are not the defaults,
\* and every parameter has been written again since it was loaded.
C14_Witness ==
    /\ audio.pc = "feed" /\ Len(audio.loaded) = 3
    /\ audio.loaded[1] # 0 /\ audio.loaded[2] # 0 /\ audio.loaded[3] # 0
    /\ parameters.pitch # audio.loaded[1]
    /\ parameters.tempo # audio.loaded[2]
    /\ parameters.speed # audio.loaded[3]
    /\ ratios.pitch = SemitonesToNative(audio.loaded[1])

-----------------------------------------------------------------------------
\* C15: in a plugin processBlock call pitch, then tempo, then rate are set
\* before the block is fed, and the block is fed and read with these three
\* ratios in force; a parameter that no thread wrote since the call began
\* is in force with the value it had before the call.  A setter changes
\* neither of the other two ratios nor the ring buffer.
C15_RatiosBeforeFeed ==
    [][/\ AudioMoves("setPitch", "setTempo")
          => /\ ratios'.tempo = ratios.tempo /\ ratios'.rate = ratios.rate
             /\ UNCHANGED <<outputFifo, fifoBuffer, processor>>
       /\ AudioMoves("setTempo", "setRate")
          => /\ ratios'.pitch = ratios.pitch /\ ratios'.rate = ratios.rate
             /\ UNCHANGED <<outputFifo, fifoBuffer, processor>>
       /\ AudioMoves("setRate", "feed")
          => /\ ratios'.pitch = ratios.pitch /\ ratios'.tempo = ratios.tempo
             /\ UNCHANGED <<outputFifo, fifoBuffer, processor>>
       /\ (AudioMoves("feed", "read") \/ AudioMoves("read", "idle"))
          => /\ ratios = [pitch |-> SemitonesToNative(audio.loaded[1]),
                          tempo |-> PercentageToNative(audio.loaded[2]),
                          rate |-> PercentageToNative(audio.loaded[3])]
             /\ ratios' = ratios
             /\ "pitch" \in audio.unwritten
                  => ratios.pitch = SemitonesToNative(parameters.pitch)
             /\ "tempo" \in audio.unwritten
                  => ratios.tempo = PercentageToNative(parameters.tempo)
             /\ "speed" \in audio.unwritten
                  => ratios.rate = PercentageToNative(parameters.speed)
      ]_vars

\* A block has been fed under three ratios that are not the defaults, set
\* from values no thread wrote since the call began, with frames in the
\* ring buffer.
C15_Witness ==
    /\ audio.pc = "read" /\ audio.unwritten = ParameterIds
    /\ ratios.pitch # Micro /\ ratios.tempo # Micro /\ ratios.rate # Micro
    /\ ratios.tempo # ratios.rate
    /\ NumReady(outputFifo) > 0

-----------------------------------------------------------------------------
\* The latency from which every later block is sure to find a block's worth
\* of frames in the ring buffer: the frames of the block itself make up for
\* what the engine holds.
SteadyLatency == MaxRetained

\* C16: after prepare(44100, 512, 2), at unity and with 512-frame blocks,
\* every block is PROCESSED or PASSTHROUGH; a PASSTHROUGH block adds its 512
\* frames to the latency and happens only below the steady latency, a
\* PROCESSED block leaves the latency as it is, and the latency stays a
\* multiple of 512 below the steady latency plus 512: after at most
\* CeilDiv(SteadyLatency, 512) PASSTHROUGH blocks every block is PROCESSED.
C16_SteadyAfterPriming ==
    [][blockCount' = blockCount + 1
       => /\ ~crashed'
          /\ call'.outcome \in {"PROCESSED", "PASSTHROUGH"}
          /\ call'.outcome = "PASSTHROUGH"
             => /\ LatencyInSamples < SteadyLatency
                /\ LatencyInSamples' = LatencyInSamples + DefaultBlockSize
          /\ call'.outcome = "PROCESSED" => LatencyInSamples' = LatencyInSamples
          /\ LatencyInSamples >= SteadyLatency => call'.outcome = "PROCESSED"
          /\ LatencyInSamples' < SteadyLatency + DefaultBlockSize
          /\ LatencyInSamples' = DefaultBlockSize * (LatencyInSamples' \div DefaultBlockSize)
      ]_vars

\* The steady state: the priming blocks are past, the engine holds all it
\* ever holds, and the block was PROCESSED.
C16_Witness ==
    /\ blockCount = MaxSteadyBlocks
    /\ LatencyInSamples >= SteadyLatency
    /\ processor.unprocessed = MaxRetained
    /\ call.outcome = "PROCESSED"

-----------------------------------------------------------------------------
\* C17: a processBlock call whose block size and channel count are the
\* prepared ones takes no buffer from the heap and resizes none.
C17_NoAllocationInBlock ==
    (/\ call.outcome \in {"PROCESSED", "PASSTHROUGH"}
     /\ call.numSamples = currentBlockSize
     /\ call.numChannels = currentNumChannels)
    => call.allocations = {}

-----------------------------------------------------------------------------
\* The absolute error the conversion tests allow: 0.0001.
Tolerance == 100

Near(a, b) == Abs(a - b) <= Tolerance

\* The least and the greatest ratio of the tempo and speed range.
MinRatio == Micro \div 10
MaxRatio == 10 * Micro

\* C18: percentageToNative (p) is 1 + p / 100 for every p of the range
\* [-90, 900]: 100 (ratio - 1) = p; it takes 0 to 1, 100 to 2, 200 to 3,
\* -50 to 0.5, 900 to 10 and -90 to 0.1 within 0.0001; the ratio given to
\* the engine is in [0.1, 10] and positive.
C18_PercentToRatio ==
    \A id \in {"tempo", "rate"} :
       LET percentage == IF id = "tempo" THEN parameters.tempo ELSE parameters.speed
           ratio == ratios[id]
       IN (lastOp.name = (IF id = "tempo" THEN "setTempo" ELSE "setRate"))
          => /\ ratio >= MinRatio /\ ratio <= MaxRatio
             /\ ratio > 0
             /\ 100 * (ratio - Micro) = percentage
             /\ percentage = 0 => Near(ratio, Micro)
             /\ percentage = 100 * Micro => Near(ratio, 2 * Micro)
             /\ percentage = 200 * Micro => Near(ratio, 3 * Micro)
             /\ percentage = -50 * Micro => Near(ratio, Micro \div 2)
             /\ percentage = PercentMax => Near(ratio, MaxRatio)
             /\ percentage = PercentMin => Near(ratio, MinRatio)

\* Both ends of the range and the listed values have been converted.
C18_Witness ==
    /\ lastOp.name = "setRate"
    /\ parameters.speed = PercentMin
    /\ ratios.rate = MinRatio /\ ratios.tempo = MinRatio

-----------------------------------------------------------------------------
\* C19: semitonesToNative (s) is 2^(s/12) for every s of the range
\* [-39.8, 39.8]: it takes 0 to 1, 12 to 2 and -12 to 0.5 within 0.0001, and
\* the ratio of s plus an interval is the ratio of s times the ratio of the
\* interval; it is strictly increasing; the ratios of s and of -s multiply
\* to 1 within 0.0001; it is positive, below 1 at the least s, between 1 and
\* 100 at the greatest.
C19_SemitonesToRatio ==
    lastOp.name = "setPitch"
    => LET semitones == parameters.pitch
           ratio == ratios.pitch
           next == SemitonesToNative(semitones + PitchStep)
       IN /\ semitones = 0 => Near(ratio, Micro)
          /\ semitones = 12 * Micro => Near(ratio, 2 * Micro)
          /\ semitones = -12 * Micro => Near(ratio, Micro \div 2)
          /\ Near(next, MulMicro(ratio, SemitonesToNative(PitchStep)))
          /\ Near(SemitonesToNative(semitones + 12 * Micro), 2 * ratio)
          /\ ratio < next
          /\ Near(MulMicro(ratio, SemitonesToNative(-semitones)), Micro)
          /\ ratio > 0
          /\ semitones = PitchMin => ratio < Micro
          /\ semitones = PitchMax => ratio > Micro /\ ratio < 100 * Micro

\* The greatest pitch has been converted.
C19_Witness ==
    /\ lastOp.name = "setPitch"
    /\ parameters.pitch = PitchMax
    /\ ratios.pitch > 9 * Micro

-----------------------------------------------------------------------------
\* The absolute error the state test allows: 0.01.
Hundredth == Micro \div 100

\* C20: getStateInformation writes the value of each parameter and the
\* buffering mode into the state; setStateInformation with a state of this
\* plugin, on a processor just constructed or on any other, sets each
\* parameter within 0.01 of the value written and the buffering mode, of
\* the processor and of the adapter, to the mode written; without the
\* attribute the mode becomes Normal; with an attribute that is not a mode
\* the mode stays as it is.
C20_StateRoundTrip ==
    [][/\ (stateData'.tag = StateType /\ stateData'.restores = 0 /\ stateData' # stateData)
          => /\ \A id \in ParameterIds :
                  FromText(stateData'.values[id]) = parameters[id]
             /\ stateData'.mode = <<processorMode>>
       /\ (stateData'.restores > 0 /\ stateData'.restores # stateData.restores
           /\ stateData'.tag = StateType)
          => /\ \A id \in ParameterIds :
                  Abs(parameters'[id] - FromText(stateData'.values[id])) <= Hundredth
             /\ stateData'.mode = <<>>
                  => processorMode' = DefaultBufferingMode
                     /\ bufferingMode' = DefaultBufferingMode
             /\ (stateData'.mode # <<>> /\ ModeAccepted(stateData'.mode[1]))
                  => processorMode' = stateData'.mode[1]
                     /\ bufferingMode' = stateData'.mode[1]
             /\ (stateData'.mode # <<>> /\ ~ModeAccepted(stateData'.mode[1]))
                  => UNCHANGED <<processorMode, bufferingMode>>
      ]_vars

\* A state saved with three values that are not the defaults and with the
\* Extra mode has been restored into a processor just constructed.
C20_Witness ==
    /\ stateData.tag = StateType /\ stateData.into = "fresh"
    /\ stateData.mode = <<3>>
    /\ \A id \in ParameterIds :
          parameters[id] # 0 /\ parameters[id] = FromText(stateData.values[id])
    /\ processorMode = 3 /\ bufferingMode = 3

-----------------------------------------------------------------------------
\* Step 1 of processBlock: the sample at index i of interleavedBuffer.
InterleavedAt(buffer, numChannels, i) ==
    GetSample(buffer, i % numChannels, i \div numChannels)

\* The channel and the frame for which the host supplied the sample that an
\* engine returning its input unchanged emits at stream position pos: the
\* stream is the interleaved blocks one after the other.
Origin(pos, numChannels) ==
    [channel |-> (pos - 1) % numChannels, frame |-> (pos - 1) \div numChannels]

\* C21: around an engine that returns its input unchanged, a PROCESSED block
\* has, for each channel c and each frame k, the sample the host supplied
\* for channel c, at the frame that is k after the one delivered at frame 0.
C21_BridgeRoundTrip ==
    (BlockRan /\ call.outcome = "PROCESSED" /\ ~crashed)
    => LET first == Origin(GetSample(call.output, 0, 0), call.numChannels)
           last == call.numSamples - 1
       IN /\ \A c \in 1 .. call.numChannels :
                LET i == last * call.numChannels + c - 1
                IN /\ InterleavedAt(call.input, call.numChannels, i)
                        = GetSample(call.input, c - 1, last)
                   /\ Origin(i + 1, call.numChannels)
                        = [channel |-> c - 1, frame |-> last]
          /\ \A c \in 1 .. call.numChannels : \A k \in 0 .. call.numSamples - 1 :
                Origin(GetSample(call.output, c - 1, k), call.numChannels)
                  = [channel |-> c - 1, frame |-> first.frame + k]

-----------------------------------------------------------------------------
\* The samples the drain committed in its batches from the i-th on.
RECURSIVE Committed(_, _, _)
Committed(batches, numChannels, i) ==
    IF i > Len(batches) THEN 0
    ELSE batches[i].samplesToWrite * numChannels + Committed(batches, numChannels, i + 1)

\* The samples the two de-interleave loops copy out of spans: every pass of
\* a loop copies numChannels samples.
CopiedOut(spans, numChannels) == FramesWritten(spans, numChannels) * numChannels

\* C22: after a processBlock call the occupancy of the ring buffer is what it
\* was before, plus the samples the drain committed, minus the samples the
\* read committed, and lies between 0 and the capacity; every write request
\* is within the free space and the read request within the occupancy; the
\* spans of each sum to the request, and what is committed is what was
\* copied.
C22_RingAccounting ==
    BlockRan
    => LET n == call.numChannels
           request == ReadRequest(call.numSamples, n)
           processed == call.outcome = "PROCESSED"
       IN /\ NumReady(outputFifo)
               = call.readyBefore + Committed(call.batches, n, 1)
                 - (IF processed THEN request ELSE 0)
          /\ NumReady(outputFifo) >= 0
          /\ NumReady(outputFifo) <= outputFifo.bufferSize - 1
          /\ \A i \in 1 .. Len(call.batches) :
                LET b == call.batches[i]
                IN /\ b.samplesToWrite * n <= FreeSpace(b.fifo)
                   /\ b.spans.size1 + b.spans.size2 = b.samplesToWrite * n
                   /\ NumReady(b.after) - NumReady(b.fifo)
                        = b.spans.size1 + b.spans.size2
          /\ processed
               => /\ request <= NumReady(call.drained)
                  /\ call.readSpans.size1 + call.readSpans.size2 = request
                  /\ NumReady(call.drained) - NumReady(outputFifo) = request
                  /\ CopiedOut(call.readSpans, n) = request

-----------------------------------------------------------------------------
\* A span starts and ends between two frames of numChannels samples.
FrameAligned(spans, numChannels) ==
    /\ spans.start1 % numChannels = 0 /\ spans.size1 % numChannels = 0
    /\ spans.start2 % numChannels = 0 /\ spans.size2 % numChannels = 0

\* C23: the size of the ring buffer of a prepared adapter is a multiple of
\* the channel count, and the spans of every write and of every read of a
\* processBlock call hold whole frames.
C23_CapacityHoldsFrames ==
    /\ (Prepared /\ outputFifo # NoFifo)
         => outputFifo.bufferSize % currentNumChannels = 0
    /\ BlockRan
         => /\ \A i \in 1 .. Len(call.batches) :
                  FrameAligned(call.batches[i].spans, call.numChannels)
            /\ FrameAligned(call.readSpans, call.numChannels)

-----------------------------------------------------------------------------
\* C24: a processBlock call that passes the channel check with a block of at
\* least one frame gives the engine the block's frames, as many as the block
\* has, whatever its outcome, and leaves no output queued in the engine,
\* also when batches found the ring buffer full and were dropped.
C24_FedAndDrained ==
    (BlockRan /\ call.numSamples >= 1)
    => /\ call.put = call.numSamples
       /\ processor.queued = 0
       /\ call.outcome \in {"PROCESSED", "PASSTHROUGH"}

\* The engine emitted more than the ring buffer could take: one batch was
\* cut and another one dropped whole, and the engine is drained.
C24_Witness ==
    /\ BlockRan /\ call.numSamples >= 1 /\ call.put = call.numSamples
    /\ processor.queued = 0
    /\ \E i \in 1 .. Len(call.batches) :
          /\ call.batches[i].samplesToWrite = 0
          /\ call.batches[i].received > 0

-----------------------------------------------------------------------------
\* The stream position of the oldest sample waiting in the ring buffer; with
\* none waiting, the position of the next sample the engine will emit.
OldestReady ==
    IF NumReady(outputFifo) > 0 THEN Buffered(outputFifo, fifoBuffer, 0) ELSE streamPos

\* The ring buffer holds the last samples the engine emitted, all of them:
\* nothing that was emitted after the oldest one waiting has been dropped.
Gapless ==
    NumReady(outputFifo) > 0
    => /\ Buffered(outputFifo, fifoBuffer, 0) = streamPos - NumReady(outputFifo)
       /\ Buffered(outputFifo, fifoBuffer, NumReady(outputFifo) - 1) = streamPos - 1

\* No batch of the call was cut or dropped.
NothingDropped(c) ==
    \A i \in 1 .. Len(c.batches) : c.batches[i].samplesToWrite = c.batches[i].received

\* A step that is a PROCESSED call delivers frames the engine emitted, in
\* their order, none of them older than the oldest that was waiting, all
\* that wait afterwards being newer.
DeliversInOrder ==
    (lastOp'.name = "processBlock" /\ ~crashed'
       /\ call'.outcome = "PROCESSED" /\ call'.numSamples >= 1)
    => LET n == call'.numChannels
           last == call'.numSamples - 1
           Out(c, k) == GetSample(call'.output, c - 1, k)
       IN /\ \A k \in 0 .. last :
                /\ Out(1, k) > 0
                /\ (streamPos' - Out(1, k)) % n = 0
                /\ \A c \in 1 .. n : Out(c, k) = Out(1, k) + c - 1
          /\ \A k \in 0 .. last - 1 : Out(1, k) < Out(1, k + 1)
          /\ Out(1, 0) >= OldestReady
          /\ Out(n, last) < OldestReady'
          /\ (Gapless /\ NothingDropped(call'))
               => /\ Gapless'
                  /\ Out(1, 0) = OldestReady
                  /\ \A k \in 0 .. last - 1 : Out(1, k + 1) = Out(1, k) + n

\* C25: the frames of a PROCESSED block are frames the engine emitted, each
\* with its samples in their order, in the order the engine emitted them;
\* none is older than the oldest that was waiting before the call, and all
\* that wait after the call are newer, so that no frame is delivered twice
\* and none out of its order.  While nothing has been dropped, the frames
\* delivered are the oldest not yet delivered, one after the other.
C25_DeliveredInOrder == [][DeliversInOrder]_vars

-----------------------------------------------------------------------------
\* C26: every processBlock call returns: the drain loop, once entered, is
\* left, and the call ends, whatever the engine has queued, whether the
\* ring buffer is full or empty and whether the block has frames or none.
C26_CallTerminates == (audio.pc = "drain") ~> (audio.pc = "idle")

\* A pass of the loop takes at least one frame from the engine's queue, or
\* leaves the loop.
PassMakesProgress ==
    [][AudioMoves("drain", "drain") => processor'.queued < processor.queued]_vars

\* The loop has been left after more than one pass, one of which found the
\* ring buffer full.
C26_Witness ==
    /\ audio.pc = "read" /\ audio.passes >= 2 /\ audio.dropped
    /\ processor.queued = 0

-----------------------------------------------------------------------------
\* The configuration the adapter stores, and the capacity of its ring
\* buffer.
Configuration ==
    <<currentSampleRate, currentBlockSize, currentNumChannels, bufferingMode>>

Capacity == outputFifo.bufferSize

\* C27: on a prepared adapter the ring buffer's capacity is the policy
\* value of the selected mode for the block size of the last prepare, after
\* every operation.  prepare keeps the selected mode, setBufferingMode keeps
\* the prepared block size and channel count, and processBlock and the
\* three setters change neither the stored configuration nor the capacity.
ConfigurationKept ==
    /\ Prepared' => Capacity' = Policy(bufferingMode', currentBlockSize')
    /\ lastOp'.name = "prepare" => bufferingMode' = bufferingMode
    /\ lastOp'.name = "setBufferingMode"
          => /\ currentBlockSize' = currentBlockSize
             /\ currentNumChannels' = currentNumChannels
             /\ Prepared' => fifoBuffer'.size = Capacity' * currentNumChannels
    /\ lastOp'.name \in {"processBlock", "setPitch", "setTempo", "setRate"}
          => UNCHANGED <<Configuration, Capacity>>

C27_CapacityFollowsPolicy == [][ConfigurationKept]_vars

\* A block has gone through an adapter in Minimal mode prepared for blocks of
\* LargeBlock frames, with the pitch set.
C27_Witness ==
    /\ lastOp.name = "processBlock" /\ call.outcome \in {"PROCESSED", "PASSTHROUGH"}
    /\ Prepared /\ bufferingMode = 1 /\ currentBlockSize = LargeBlock
    /\ Capacity = MinimalBlocks * LargeBlock
    /\ ratios.pitch # Micro /\ ratios.tempo # Micro

-----------------------------------------------------------------------------
\* C28: the adapter does not stay in PASSTHROUGH for ever: once it is
\* prepared, whatever the mode, the block size and the channel count, and
\* blocks of the prepared size keep arriving while the engine keeps
\* emitting, a block is PROCESSED.
C28_EventuallyProcessed == Prepared ~> (call.outcome = "PROCESSED")

\* The ring buffer can hold a block of the prepared size.
HoldsABlock ==
    Prepared => (Capacity - 1) \div currentNumChannels >= currentBlockSize

-----------------------------------------------------------------------------
\* The last operation was a processBlock call that passed the channel
\* check.
PassedChannelCheck == lastOp.name = "processBlock" /\ call.outcome # "REFUSED"

\* C29: whenever a processBlock call has passed the channel check, the ring
\* buffer exists, allocated by prepare or by a setBufferingMode that took
\* effect: the call does not go on to its drain and read stages without
\* one, on a new adapter given a 2-channel buffer either.
C29_RingExistsPastCheck ==
    PassedChannelCheck => outputFifo # NoFifo /\ call.outcome # "CRASH"

-----------------------------------------------------------------------------
\* The mode the plugin stores is the mode the adapter stores, one of 1, 2, 3.
ModesAgree == processorMode = bufferingMode /\ bufferingMode \in 1 .. 3

\* C30: after every plugin-level setBufferingMode and setStateInformation,
\* with any integer as mode, the plugin's stored mode is the adapter's and
\* is one of 1, 2, 3; a call with a mode outside 1 .. 3 changes neither
\* stored mode, nor the ring buffer, nor the engine.
ModeKept ==
    /\ ModesAgree'
    /\ (lastOp'.name = "setBufferingMode" /\ lastOp'.mode \notin 1 .. 3)
          => UNCHANGED <<processorMode, bufferingMode, outputFifo, fifoBuffer,
                         processor, liveFifos>>

C30_ModesAgree == [][ModeKept]_vars

\* A restored state with a mode outside 1 .. 3 has been passed to a plugin in
\* Extra mode whose ring buffer holds audio.
C30_Witness ==
    /\ lastOp.name = "setBufferingMode" /\ lastOp.mode \notin 1 .. 3
    /\ stateData.restores > 0 /\ stateData.mode = <<lastOp.mode>>
    /\ processorMode = 3 /\ bufferingMode = 3
    /\ HoldsAudio(fifoBuffer) /\ NumReady(outputFifo) > 0

=============================================================================
